---------------------------- MODULE Spec2Model ----------------------------
(***************************************************************************)
(* A model of the CB5 safety-request pipeline (generate_maps.py,           *)
(* generate_charts.py): the boundary-polygon filter, the data-preparation  *)
(* step, the status classifier, the three-tier intersection geocoder with  *)
(* its cache, and the crash-proximity aggregation.                         *)
(*                                                                         *)
(* Representation.  A string is a sequence of one-character strings.  A    *)
(* number that may be missing (NaN / None) is a sequence: <<>> when it is  *)
(* missing, <<n, d>> for the rational n/d in lowest terms with d > 0.      *)
(* Coordinates live on a small integer grid; the medians, regression lines *)
(* and line intersections computed from them are exact rationals.          *)
(***************************************************************************)
EXTENDS Integers, Sequences, FiniteSets, TLC

VARIABLES
    pc,                 \* position of the run being modelled
    poly,               \* the boundary polygon currently in cb5_boundary.geojson
    \* ---- data preparation / polygon filter
    srts,               \* srts_citywide.csv rows
    maps_filter,        \* result of generate_maps._filter_points_in_cb5
    charts_filter,      \* result of generate_charts._filter_points_in_cb5
    maps_cb5_srts,      \* data['cb5_srts'] of generate_maps.load_and_prepare_data
    charts_cb5_srts,    \* data['cb5_srts'] of generate_charts.prepare_data
    \* ---- record classifier
    status,             \* a statusdescription cell
    maps_outcome,       \* generate_maps._classify_outcome(status)
    charts_outcome,     \* generate_charts.prepare_data.classify_outcome(status)
    \* ---- intersection geocoder
    cb5_no_aps,         \* data['cb5_no_aps']: the signal-study requests
    crashes,            \* data['crashes']
    cacheFile,          \* geocode_cache_signal_studies.csv: <<>> when absent, <<rows>> when present
    crash_lookup,       \* local of geocode_signal_studies
    srts_lookup,        \* local of geocode_signal_studies
    geo,                \* the request rows with the arrays lats, lons, geo_tier
    signal_geo,         \* what geocode_signal_studies returned: <<>> before, <<rows>> after
    wrote,              \* whether the current call has written the cache file
    runs,               \* number of calls of geocode_signal_studies started
    \* ---- proximity aggregation
    locations_df,       \* the locations handed to compute_proximity / run_proximity_analysis
    crashes_df,         \* the crash table (data['cb5_crashes'])
    radius_m,           \* the radius argument, metres
    prox_out,           \* what compute_proximity returned: <<>> before, <<rows>> after
    signal_prox,        \* run_proximity_analysis: the signal-study result
    srts_prox,          \* run_proximity_analysis: the SRTS result
    \* ---- before-after analysis of installed locations
    ba_studies,         \* output/data_cb5_signal_studies.csv as _compute_before_after reads it
    ba_cache,           \* the geocode cache file as _compute_before_after reads it
    ba_crashes,         \* data['cb5_crashes'] with crash dates
    installed,          \* the installed locations with coordinates: <<>> before, <<rows>> after
    ba_local,           \* the local variables of the last loop iteration, <<>> before the first
    ba_results,         \* the list results
    \* ---- rank-sum test
    mw_x,               \* the first sample handed to _mann_whitney_u
    mw_y,               \* the second sample
    mw_out,             \* what _mann_whitney_u returned: <<>> before, <<result>> after
    \* ---- boundary file
    boundary_file,      \* the file at CB5_BOUNDARY_PATH: <<>> if absent, <<text>> if present
    boundary_calls,     \* one record per finished call of _load_cb5_boundary, oldest first
    \* ---- download script
    fd_done,            \* what fetch_dataset did for each dataset main has got to, in order
    fd_csv,             \* the datasets whose csv file main has written
    fd_run,             \* "running", "returned" (main returned all_data) or "raised"
    fd_files,           \* the csv file of each dataset in DATA_DIR: <<>> when there is none
    \* ---- street names
    nm_name,            \* the name handed to _normalize_street_name
    nm_out,             \* what it returned: <<>> before, <<text>> after
    \* ---- generate_maps.main
    main_cache_read,    \* <<>> until _compute_before_after reads the geocode cache, then
                        \* <<TRUE>> if the file was there, <<FALSE>> if not
    \* ---- spatial de-duplication of the denied-location tables
    sd_df,              \* the table of denied locations with their crash counts
    sd_radius,          \* radius_m
    sd_arg,             \* <<>>, then <<the table _spatial_dedup was called with>>
    sd_out,             \* <<>>, then <<the table _spatial_dedup returned>>
    \* ---- chart_15_srts_funnel
    f15_cb5,            \* the rows _load_cb5_srts_full returns
    f15_dtype,          \* the dtype of its projectstatus column
    f15_out             \* <<>>, then <<the outcome counts, or the exception raised>>

filterVars == <<srts, maps_filter, charts_filter, maps_cb5_srts, charts_cb5_srts>>

classVars == <<status, maps_outcome, charts_outcome>>

geoVars == <<cb5_no_aps, crashes, cacheFile, crash_lookup, srts_lookup, geo, signal_geo, wrote, runs>>

proxVars == <<locations_df, crashes_df, radius_m, prox_out, signal_prox, srts_prox>>

baVars == <<ba_studies, ba_cache, ba_crashes, installed, ba_local, ba_results>>

mwVars == <<mw_x, mw_y, mw_out>>

bndVars == <<boundary_file, boundary_calls>>

fdVars == <<fd_done, fd_csv, fd_run, fd_files>>

netVars == <<bndVars, fdVars>>

normVars == <<nm_name, nm_out>>

mainVars == <<main_cache_read>>

dedupVars == <<sd_df, sd_radius, sd_arg, sd_out>>

funnelVars == <<f15_cb5, f15_dtype, f15_out>>

chartVars == <<dedupVars, funnelVars>>

lateVars == <<normVars, mainVars, chartVars>>

restVars == <<baVars, mwVars, netVars, lateVars>>

vars == <<pc, poly, filterVars, classVars, geoVars, proxVars, restVars>>

-----------------------------------------------------------------------------
(* Bounds of the model *)

MaxRows == 2

MaxChunks == 2

MaxRequests == 2

MaxSrts == 2

MaxRuns == 2

\* binary digits kept after the point by the model's floating-point rounding
FloatBits == 4

MaxLocations == 2

MaxStudies == 2

MaxDatedCrashes == 2

MaxSample == 2

\* the longest fetched district collection
MaxFeatures == 2

\* the number of calls of _load_cb5_boundary followed
MaxCalls == 2

\* the most rows a dataset request answers with
MaxFetchedRows == 1

\* the most words of a street name
MaxWords == 3

-----------------------------------------------------------------------------
(* Missing values and exact rationals *)

NaN == <<>>

isna(v) == v = <<>>

notna(v) == v # <<>>

Abs(n) == IF n < 0 THEN -n ELSE n

RECURSIVE Gcd(_, _)
Gcd(a, b) == IF b = 0 THEN a ELSE Gcd(b, a % b)

\* the rational n/d (d # 0) in lowest terms with a positive denominator
Rat(n, d) ==
    LET s == IF d < 0 THEN -1 ELSE 1
        g == Gcd(Abs(n), Abs(d))
    IN  <<(s * n) \div g, (s * d) \div g>>

Num(n) == <<n, 1>>

RatAdd(a, b) == Rat(a[1] * b[2] + b[1] * a[2], a[2] * b[2])

RatSub(a, b) == Rat(a[1] * b[2] - b[1] * a[2], a[2] * b[2])

RatMul(a, b) == Rat(a[1] * b[1], a[2] * b[2])

RatDiv(a, b) == Rat(a[1] * b[2], a[2] * b[1])

RatLt(a, b) == a[1] * b[2] < b[1] * a[2]

RECURSIVE Pow2(_)
Pow2(k) == IF k = 0 THEN 1 ELSE 2 * Pow2(k - 1)

\* The result of a floating-point operation: the exact result rounded to the
\* nearest representable number, ties to even.  The model's representable
\* numbers are the multiples of 2^-FloatBits (a double keeps 53 significant
\* bits); grid coordinates and their two-value means are representable.
fl(r) ==
    LET Q == Pow2(FloatBits)
        x == r[1] * Q
        q == x \div r[2]
        rem == x - q * r[2]
        n == IF 2 * rem < r[2] THEN q
             ELSE IF 2 * rem > r[2] THEN q + 1
             ELSE IF q % 2 = 0 THEN q ELSE q + 1
    IN  Rat(n, Q)

-----------------------------------------------------------------------------
(* Strings as character sequences *)

\* the characters the street names and status texts use, in code-point order
Chars ==
    <<" ", "-", "0", "1", "2", "3", "4", "5", "6", "7", "8", "9",
      "A", "B", "C", "D", "E", "F", "G", "H", "I", "J", "K", "L", "M",
      "N", "O", "P", "Q", "R", "S", "T", "U", "V", "W", "X", "Y", "Z",
      "a", "b", "c", "d", "e", "f", "g", "h", "i", "j", "k", "l", "m",
      "n", "o", "p", "q", "r", "s", "t", "u", "v", "w", "x", "y", "z">>

Ord(c) == CHOOSE i \in 1..Len(Chars) : Chars[i] = c

IsUpperChar(c) == Ord(c) >= 13 /\ Ord(c) <= 38

IsLowerChar(c) == Ord(c) >= 39

\* str.upper()
upper(s) == [i \in 1..Len(s) |-> IF IsLowerChar(s[i]) THEN Chars[Ord(s[i]) - 26] ELSE s[i]]

\* str.lower()
lower(s) == [i \in 1..Len(s) |-> IF IsUpperChar(s[i]) THEN Chars[Ord(s[i]) + 26] ELSE s[i]]

\* str.strip()
RECURSIVE lstrip(_)
lstrip(s) == IF s # <<>> /\ Head(s) = " " THEN lstrip(Tail(s)) ELSE s

RECURSIVE rstrip(_)
rstrip(s) == IF s # <<>> /\ s[Len(s)] = " " THEN rstrip(SubSeq(s, 1, Len(s) - 1)) ELSE s

strip(s) == rstrip(lstrip(s))

\* ' '.join(s.split()): runs of blanks collapse to one, none at the ends
RECURSIVE collapse(_)
collapse(s) ==
    IF s = <<>> THEN <<>>
    ELSE IF Head(s) = " " /\ (Len(s) = 1 \/ s[2] = " ") THEN collapse(Tail(s))
    ELSE <<Head(s)>> \o collapse(Tail(s))

join_split(s) == collapse(lstrip(s))

\* s.endswith(t)
endswith(s, t) == Len(s) >= Len(t) /\ SubSeq(s, Len(s) - Len(t) + 1, Len(s)) = t

\* t in s
contains_str(s, t) ==
    \E i \in 0..(Len(s) - Len(t)) : SubSeq(s, i + 1, i + Len(t)) = t

\* s < t in Python's string order
RECURSIVE str_lt(_, _)
str_lt(s, t) ==
    IF t = <<>> THEN FALSE
    ELSE IF s = <<>> THEN TRUE
    ELSE IF Head(s) = Head(t) THEN str_lt(Tail(s), Tail(t))
    ELSE Ord(Head(s)) < Ord(Head(t))

\* tuple(sorted([a, b]))
sorted_pair(a, b) == IF str_lt(b, a) THEN <<b, a>> ELSE <<a, b>>

-----------------------------------------------------------------------------
(* The boundary polygon *)

\* candidate contents of cb5_boundary.geojson: convex rings, counter-clockwise,
\* vertices <<lon, lat>> in grid units
Polygons ==
    <<  <<  <<0, 0>>, <<4, 0>>, <<0, 4>>  >>,
        <<  <<1, 0>>, <<4, 0>>, <<4, 3>>, <<1, 3>>  >>  >>

\* shapely's prepared.contains(Point(lon, lat)): the point is in the interior,
\* a point on the ring is not contained
contains(P, lon, lat) ==
    \A i \in 1..Len(P) :
        LET a == P[i]
            b == P[(i % Len(P)) + 1]
            ex == b[1] - a[1]
            ey == b[2] - a[2]
        IN  ex * (lat[1] * lon[2] - a[2] * lat[2] * lon[2])
              - ey * (lon[1] * lat[2] - a[1] * lon[2] * lat[2]) > 0

_load_cb5_polygon == Polygons[poly]

-----------------------------------------------------------------------------
(* Table helpers *)

RECURSIVE SeqsUpTo(_, _)
SeqsUpTo(S, n) ==
    IF n = 0 THEN {<<>>}
    ELSE LET shorter == SeqsUpTo(S, n - 1)
         IN  shorter \cup {Append(s, x) : s \in {t \in shorter : Len(t) = n - 1}, x \in S}

RECURSIVE Filter(_, _)
Filter(df, keep) ==
    IF df = <<>> THEN <<>>
    ELSE (IF keep[1] THEN <<Head(df)>> ELSE <<>>)
           \o Filter(Tail(df), [i \in 1..(Len(df) - 1) |-> keep[i + 1]])

Count(mask) == Cardinality({i \in DOMAIN mask : mask[i]})

-----------------------------------------------------------------------------
(* Geographic filter: _filter_points_in_cb5, both copies *)

\* generate_maps.py: rows without coordinates are dropped and counted
maps_filter_points_in_cb5(df, lat_col, lon_col) ==
    LET prepared == _load_cb5_polygon
        has_coords == [i \in 1..Len(df) |-> notna(df[i][lat_col]) /\ notna(df[i][lon_col])]
        with_coords == Filter(df, has_coords)
        n_no_coords == Count([i \in 1..Len(df) |-> ~has_coords[i]])
        inside == [i \in 1..Len(with_coords) |->
                      contains(prepared, with_coords[i][lon_col], with_coords[i][lat_col])]
        filtered == Filter(with_coords, inside)
        n_excluded == Count([i \in 1..Len(with_coords) |-> ~inside[i]]) + n_no_coords
    IN  [filtered |-> filtered, n_excluded |-> n_excluded]

\* generate_charts.py: rows without coordinates are appended to the result
charts_filter_points_in_cb5(df, lat_col, lon_col) ==
    LET prepared == _load_cb5_polygon
        has_coords == [i \in 1..Len(df) |-> notna(df[i][lat_col]) /\ notna(df[i][lon_col])]
        no_coords == Filter(df, [i \in 1..Len(df) |-> ~has_coords[i]])
        with_coords == Filter(df, has_coords)
        inside == [i \in 1..Len(with_coords) |->
                      contains(prepared, with_coords[i][lon_col], with_coords[i][lat_col])]
        filtered == Filter(with_coords, inside) \o no_coords
        n_excluded == Count([i \in 1..Len(with_coords) |-> ~inside[i]])
    IN  [filtered |-> filtered, n_excluded |-> n_excluded]

-----------------------------------------------------------------------------
(* Data preparation of the speed-bump (SRTS) table *)

CB5_GEOCODE == 405

excluded_cross ==
    << <<"5", "1", " ", "R", "O", "A", "D">>,
       <<"5", "1", " ", "S", "T", "R", "E", "E", "T">>,
       <<"5", "2", " ", "A", "V", "E", "N", "U", "E">>,
       <<"5", "2", " ", "D", "R", "I", "V", "E">>,
       <<"5", "2", " ", "R", "O", "A", "D">>,
       <<"5", "2", " ", "C", "O", "U", "R", "T">>,
       <<"5", "3", " ", "A", "V", "E", "N", "U", "E">>,
       <<"5", "3", " ", "D", "R", "I", "V", "E">>,
       <<"5", "3", " ", "R", "O", "A", "D">>,
       <<"C", "A", "L", "A", "M", "U", "S", " ", "A", "V", "E", "N", "U", "E">>,
       <<"Q", "U", "E", "E", "N", "S", " ", "B", "O", "U", "L", "E", "V", "A", "R", "D">> >>

excluded_main == << <<"M", "A", "U", "R", "I", "C", "E", " ", "A", "V", "E", "N", "U", "E">> >>

WOODSIDE == <<"W", "O", "O", "D", "S", "I", "D", "E">>

\* str(row.get(col, '')): a missing cell reads as the text 'nan'
str_of(v) == IF isna(v) THEN <<"n", "a", "n">> ELSE v

\* generate_charts.prepare_data._is_outside_cb5
_is_outside_cb5(row) ==
    LET cross1 == strip(upper(str_of(row.crossstreet1)))
        cross2 == strip(upper(str_of(row.crossstreet2)))
        main == strip(upper(str_of(row.onstreet)))
    IN  \/ \E k \in 1..Len(excluded_cross) :
              contains_str(cross1, excluded_cross[k]) \/ contains_str(cross2, excluded_cross[k])
        \/ \E k \in 1..Len(excluded_main) : contains_str(main, excluded_main[k])
        \/ contains_str(cross1, WOODSIDE) \/ contains_str(cross2, WOODSIDE)
        \/ contains_str(main, WOODSIDE)

\* generate_charts.prepare_data, the SRTS part: data['cb5_srts']
prepare_data(srts_tab) ==
    LET srts_resolved == Filter(srts_tab, [i \in 1..Len(srts_tab) |->
                srts_tab[i].segmentstatusdescription \in {"Not Feasible", "Feasible"}])
        cb5_srts_raw == Filter(srts_resolved, [i \in 1..Len(srts_resolved) |->
                srts_resolved[i].cb_num = CB5_GEOCODE])
        cb5_srts == Filter(cb5_srts_raw, [i \in 1..Len(cb5_srts_raw) |->
                ~_is_outside_cb5(cb5_srts_raw[i])])
    IN  charts_filter_points_in_cb5(cb5_srts, "fromlatitude", "fromlongitude").filtered

\* generate_maps.load_and_prepare_data, the SRTS part: data['cb5_srts']
load_and_prepare_data(srts_tab) ==
    LET srts_resolved == Filter(srts_tab, [i \in 1..Len(srts_tab) |->
                srts_tab[i].segmentstatusdescription \in {"Not Feasible", "Feasible"}])
        cb5_srts_raw == Filter(srts_resolved, [i \in 1..Len(srts_resolved) |->
                srts_resolved[i].cb_num = CB5_GEOCODE])
        cb5_srts == maps_filter_points_in_cb5(cb5_srts_raw, "fromlatitude", "fromlongitude").filtered
    IN  Filter(cb5_srts, [i \in 1..Len(cb5_srts) |->
                cb5_srts[i].year >= 2020 /\ cb5_srts[i].year <= 2025])

\* street names of the candidate SRTS rows: <<onstreet, crossstreet1, crossstreet2>>
SrtsStreets ==
    { << <<"A", " ", "S", "T">>, <<"B", " ", "A", "V", "E">>, NaN >>,
      << <<"A", " ", "S", "T">>, <<"5", "2", " ", "A", "v", "e", "n", "u", "e">>, NaN >>,
      << <<"M", "a", "u", "r", "i", "c", "e", " ", "A", "v", "e", "n", "u", "e">>, <<"B", " ", "A", "V", "E">>, <<"W", "o", "o", "d", "s", "i", "d", "e", " ", "A", "v">> >> }

\* <<fromlatitude, fromlongitude>> of the candidate rows: missing, inside both
\* polygons, outside polygon 1 but inside its envelope, on the ring of polygon 1
SrtsCoords == { <<NaN, NaN>>, <<Num(1), Num(2)>>, <<Num(3), Num(3)>>, <<Num(2), Num(2)>> }

SrtsRow(cb, seg, st, co, yr) ==
    [cb_num |-> cb, segmentstatusdescription |-> seg,
     onstreet |-> st[1], crossstreet1 |-> st[2], crossstreet2 |-> st[3],
     fromlatitude |-> co[1], fromlongitude |-> co[2], year |-> yr]

SrtsRows ==
    {SrtsRow(405, "Feasible", st, co, yr) : st \in SrtsStreets, co \in SrtsCoords, yr \in {2019, 2022}}
    \cup {SrtsRow(404, "Not Feasible", << <<"A", " ", "S", "T">>, <<"B", " ", "A", "V", "E">>, NaN >>, co, 2022) :
              co \in {<<NaN, NaN>>, <<Num(1), Num(2)>>}}
    \cup {SrtsRow(405, "Pending", << <<"A", " ", "S", "T">>, <<"B", " ", "A", "V", "E">>, NaN >>, <<Num(1), Num(2)>>, 2022)}

\* the parts of the state a specification does not use
IdleFilter ==
    /\ maps_filter = <<>>
    /\ charts_filter = <<>>
    /\ maps_cb5_srts = <<>>
    /\ charts_cb5_srts = <<>>

IdleClassify ==
    /\ status = NaN
    /\ maps_outcome = <<>>
    /\ charts_outcome = <<>>

IdleGeo ==
    /\ cb5_no_aps = <<>>
    /\ crashes = <<>>
    /\ cacheFile = <<>>
    /\ crash_lookup = <<>>
    /\ srts_lookup = <<>>
    /\ geo = <<>>
    /\ signal_geo = <<>>
    /\ wrote = FALSE
    /\ runs = 0

IdleProx ==
    /\ locations_df = <<>>
    /\ crashes_df = <<>>
    /\ radius_m = 0
    /\ prox_out = <<>>
    /\ signal_prox = <<>>
    /\ srts_prox = <<>>

IdleBA ==
    /\ ba_studies = <<>>
    /\ ba_cache = <<>>
    /\ ba_crashes = <<>>
    /\ installed = <<>>
    /\ ba_local = <<>>
    /\ ba_results = <<>>

IdleMW ==
    /\ mw_x = <<>>
    /\ mw_y = <<>>
    /\ mw_out = <<>>

IdleBnd ==
    /\ boundary_file = <<>>
    /\ boundary_calls = <<>>

IdleFd ==
    /\ fd_done = <<>>
    /\ fd_csv = {}
    /\ fd_run = "running"
    /\ fd_files = <<>>

IdleNet ==
    /\ IdleBnd
    /\ IdleFd

IdleNorm ==
    /\ nm_name = <<>>
    /\ nm_out = <<>>

IdleMain ==
    /\ main_cache_read = <<>>

IdleDedup ==
    /\ sd_df = <<>>
    /\ sd_radius = 0
    /\ sd_arg = <<>>
    /\ sd_out = <<>>

IdleFunnel ==
    /\ f15_cb5 = <<>>
    /\ f15_dtype = "object"
    /\ f15_out = <<>>

IdleChart ==
    /\ IdleDedup
    /\ IdleFunnel

IdleLate ==
    /\ IdleNorm
    /\ IdleMain
    /\ IdleChart

IdleRest ==
    /\ IdleBA
    /\ IdleMW
    /\ IdleNet
    /\ IdleLate

InitFilter ==
    /\ pc = "filter"
    /\ poly \in 1..Len(Polygons)
    /\ srts \in SeqsUpTo(SrtsRows, MaxRows)
    /\ maps_filter = <<>>
    /\ charts_filter = <<>>
    /\ maps_cb5_srts = <<>>
    /\ charts_cb5_srts = <<>>
    /\ IdleClassify
    /\ IdleGeo
    /\ IdleProx
    /\ IdleRest

MapsFilterPoints ==
    /\ pc = "filter"
    /\ maps_filter' = <<maps_filter_points_in_cb5(srts, "fromlatitude", "fromlongitude")>>
    /\ pc' = "filtered"
    /\ UNCHANGED <<poly, srts, charts_filter, maps_cb5_srts, charts_cb5_srts, classVars, geoVars, proxVars, restVars>>

ChartsFilterPoints ==
    /\ pc = "filter"
    /\ charts_filter' = <<charts_filter_points_in_cb5(srts, "fromlatitude", "fromlongitude")>>
    /\ pc' = "filtered"
    /\ UNCHANGED <<poly, srts, maps_filter, maps_cb5_srts, charts_cb5_srts, classVars, geoVars, proxVars, restVars>>

PrepareData ==
    /\ pc = "filter"
    /\ charts_cb5_srts' = <<prepare_data(srts)>>
    /\ pc' = "filtered"
    /\ UNCHANGED <<poly, srts, maps_filter, charts_filter, maps_cb5_srts, classVars, geoVars, proxVars, restVars>>

LoadAndPrepareData ==
    /\ pc = "filter"
    /\ maps_cb5_srts' = <<load_and_prepare_data(srts)>>
    /\ pc' = "filtered"
    /\ UNCHANGED <<poly, srts, maps_filter, charts_filter, charts_cb5_srts, classVars, geoVars, proxVars, restVars>>

NextFilter == MapsFilterPoints \/ ChartsFilterPoints \/ PrepareData \/ LoadAndPrepareData

SpecFilter == InitFilter /\ [][NextFilter]_vars

-----------------------------------------------------------------------------
(* Claims about the geographic filter and the data preparation *)

\* the rows of df that have both coordinates and lie strictly inside the polygon
StrictlyInside(df, lat_col, lon_col) ==
    Filter(df, [i \in 1..Len(df) |->
        /\ notna(df[i][lat_col])
        /\ notna(df[i][lon_col])
        /\ contains(Polygons[poly], df[i][lon_col], df[i][lat_col])])

FilterContract(res, df) ==
    /\ res.filtered = StrictlyInside(df, "fromlatitude", "fromlongitude")
    /\ res.n_excluded = Len(df) - Len(StrictlyInside(df, "fromlatitude", "fromlongitude"))

\* C2: both copies of _filter_points_in_cb5 return exactly the rows that have
\* both coordinates and lie strictly inside the polygon, and the number of rows
\* left out (outside or without a coordinate).
C2_FilterContractBothCopies ==
    /\ maps_filter # <<>> => FilterContract(maps_filter[1], srts)
    /\ charts_filter # <<>> => FilterContract(charts_filter[1], srts)

PassedPolygonTest(tab) ==
    \A i \in 1..Len(tab) :
        /\ notna(tab[i].fromlatitude)
        /\ notna(tab[i].fromlongitude)
        /\ contains(Polygons[poly], tab[i].fromlongitude, tab[i].fromlatitude)

\* C3: every row of cb5_srts handed on by data preparation, in generate_maps
\* and in generate_charts, has passed the point-in-polygon test.
C3_Cb5SrtsAllInsidePolygon ==
    /\ maps_cb5_srts # <<>> => PassedPolygonTest(maps_cb5_srts[1])
    /\ charts_cb5_srts # <<>> => PassedPolygonTest(charts_cb5_srts[1])

\* the generate_maps halves of C2 and C3, which the code satisfies
MapsFilterContract == maps_filter # <<>> => FilterContract(maps_filter[1], srts)

MapsCb5SrtsAllInsidePolygon == maps_cb5_srts # <<>> => PassedPolygonTest(maps_cb5_srts[1])

-----------------------------------------------------------------------------
(* Record classifier: both copies *)

s_denial == <<"d", "e", "n", "i", "a", "l">>

s_engineering_study_completed == <<"e", "n", "g", "i", "n", "e", "e", "r", "i", "n", "g", " ", "s", "t", "u", "d", "y", " ", "c", "o", "m", "p", "l", "e", "t", "e", "d">>

s_approval == <<"a", "p", "p", "r", "o", "v", "a", "l">>

s_approved == <<"a", "p", "p", "r", "o", "v", "e", "d">>

s_aps_installed == <<"a", "p", "s", " ", "i", "n", "s", "t", "a", "l", "l", "e", "d">>

s_aps_ranking == <<"a", "p", "s", " ", "r", "a", "n", "k", "i", "n", "g">>

s_aps_design == <<"a", "p", "s", " ", "d", "e", "s", "i", "g", "n">>

\* _classify_outcome without the "approval" exclusion on the
\* "engineering study completed" rule
_classify_outcome_no_exclusion(st) ==
    IF isna(st) THEN "unknown"
    ELSE LET s == lower(st)
         IN  IF contains_str(s, s_denial) \/ contains_str(s, s_engineering_study_completed)
             THEN "denied"
             ELSE IF contains_str(s, s_approval) \/ contains_str(s, s_approved)
                       \/ contains_str(s, s_aps_installed) \/ contains_str(s, s_aps_ranking)
                       \/ contains_str(s, s_aps_design)
             THEN "approved"
             ELSE "pending"

\* generate_maps._classify_outcome
_classify_outcome(st) ==
    IF isna(st) THEN "unknown"
    ELSE LET s == lower(st)
         IN  IF contains_str(s, s_denial)
                  \/ (contains_str(s, s_engineering_study_completed) /\ ~contains_str(s, s_approval))
             THEN "denied"
             ELSE IF contains_str(s, s_approval) \/ contains_str(s, s_approved)
                       \/ contains_str(s, s_aps_installed) \/ contains_str(s, s_aps_ranking)
                       \/ contains_str(s, s_aps_design)
             THEN "approved"
             ELSE "pending"

\* generate_charts.prepare_data.classify_outcome
classify_outcome(st) ==
    IF isna(st) THEN "unknown"
    ELSE LET s == lower(st)
         IN  IF contains_str(s, s_denial)
                  \/ (contains_str(s, s_engineering_study_completed) /\ ~contains_str(s, s_approval))
             THEN "denied"
             ELSE IF contains_str(s, s_approval) \/ contains_str(s, s_approved)
                       \/ contains_str(s, s_aps_installed) \/ contains_str(s, s_aps_ranking)
                       \/ contains_str(s, s_aps_design)
             THEN "approved"
             ELSE "pending"

\* pieces of status text; a status cell is missing or a concatenation of pieces
StatusChunks ==
    { <<"E", "n", "g", "i", "n", "e", "e", "r", "i", "n", "g", " ", "S", "t", "u", "d", "y", " ", "C", "o", "m", "p", "l", "e", "t", "e", "d">>,
      <<"E", "N", "G", "I", "N", "E", "E", "R", "I", "N", "G", " ", "S", "T", "U", "D", "Y", " ", "C", "O", "M", "P", "L", "E", "T", "E", "D">>,
      <<" ", "-", " ", "D", "e", "n", "i", "a", "l">>,
      <<" ", "-", " ", "A", "p", "p", "r", "o", "v", "a", "l", " ", "R", "e", "c", "o", "m", "m", "e", "n", "d", "e", "d">>,
      <<"A", "p", "p", "r", "o", "v", "e", "d">>,
      <<"A", "P", "S", " ", "I", "n", "s", "t", "a", "l", "l", "e", "d">>,
      <<"a", "p", "s", " ", "r", "a", "n", "k", "i", "n", "g">>,
      <<"A", "P", "S", " ", "D", "e", "s", "i", "g", "n">>,
      <<"S", "t", "u", "d", "y", " ", "i", "n", " ", "P", "r", "o", "g", "r", "e", "s", "s">>,
      <<"A", "p", "p", "r", "o", "v">>,
      <<"D", "e", "n">>,
      <<"i", "a", "l">> }

RECURSIVE Flatten(_)
Flatten(ss) == IF ss = <<>> THEN <<>> ELSE Head(ss) \o Flatten(Tail(ss))

\* a non-missing cell is never the empty text (read_csv reads an empty cell as NaN)
StatusValues == {NaN} \cup {Flatten(ss) : ss \in SeqsUpTo(StatusChunks, MaxChunks) \ {<<>>}}

InitClassify ==
    /\ pc = "classify"
    /\ poly = 1
    /\ srts = <<>>
    /\ IdleFilter
    /\ IdleGeo
    /\ IdleProx
    /\ IdleRest
    /\ status \in StatusValues
    /\ maps_outcome = <<>>
    /\ charts_outcome = <<>>

MapsClassify ==
    /\ pc = "classify"
    /\ maps_outcome = <<>>
    /\ maps_outcome' = <<_classify_outcome(status)>>
    /\ UNCHANGED <<pc, poly, filterVars, geoVars, proxVars, restVars, status, charts_outcome>>

ChartsClassify ==
    /\ pc = "classify"
    /\ charts_outcome = <<>>
    /\ charts_outcome' = <<classify_outcome(status)>>
    /\ UNCHANGED <<pc, poly, filterVars, geoVars, proxVars, restVars, status, maps_outcome>>

NextClassify == MapsClassify \/ ChartsClassify

SpecClassify == InitClassify /\ [][NextClassify]_vars

\* the rule of the claim, stated on the lower-cased text
HasAny(s, pats) == \E p \in pats : contains_str(s, p)

ClassifierRule(st) ==
    IF st = NaN THEN "unknown"
    ELSE IF HasAny(lower(st), {<<"d", "e", "n", "i", "a", "l">>}) THEN "denied"
    ELSE IF HasAny(lower(st), {<<"e", "n", "g", "i", "n", "e", "e", "r", "i", "n", "g", " ", "s", "t", "u", "d", "y", " ", "c", "o", "m", "p", "l", "e", "t", "e", "d">>})
              /\ ~HasAny(lower(st), {<<"a", "p", "p", "r", "o", "v", "a", "l">>}) THEN "denied"
    ELSE IF HasAny(lower(st), {<<"a", "p", "p", "r", "o", "v", "a", "l">>, <<"a", "p", "p", "r", "o", "v", "e", "d">>, <<"a", "p", "s", " ", "i", "n", "s", "t", "a", "l", "l", "e", "d">>,
                               <<"a", "p", "s", " ", "r", "a", "n", "k", "i", "n", "g">>, <<"a", "p", "s", " ", "d", "e", "s", "i", "g", "n">>}) THEN "approved"
    ELSE "pending"

Outcomes == {"denied", "approved", "pending", "unknown"}

ClassifiedAsClaimed(out) ==
    /\ out \in Outcomes
    /\ out = ClassifierRule(status)
    /\ status = <<"E", "n", "g", "i", "n", "e", "e", "r", "i", "n", "g", " ", "S", "t", "u", "d", "y", " ", "C", "o", "m", "p", "l", "e", "t", "e", "d", " ", "-", " ", "D", "e", "n", "i", "a", "l">> => out = "denied"
    /\ status = <<"E", "n", "g", "i", "n", "e", "e", "r", "i", "n", "g", " ", "S", "t", "u", "d", "y", " ", "C", "o", "m", "p", "l", "e", "t", "e", "d", " ", "-", " ", "A", "p", "p", "r", "o", "v", "a", "l", " ", "R", "e", "c", "o", "m", "m", "e", "n", "d", "e", "d">> => out = "approved"

\* C7: each copy of the classifier returns exactly one of denied, approved,
\* pending, unknown, the one the rule of the claim gives (unknown for a missing
\* status; denial, or a completed study without approval, before the approval
\* words; pending otherwise), the two examples come out denied and approved,
\* and the two copies agree.
C7_ClassifierRule ==
    /\ maps_outcome # <<>> => ClassifiedAsClaimed(maps_outcome[1])
    /\ charts_outcome # <<>> => ClassifiedAsClaimed(charts_outcome[1])
    /\ (maps_outcome # <<>> /\ charts_outcome # <<>>) => maps_outcome = charts_outcome

\* a status that satisfies both naive patterns has been classified by both copies
C7_Witness ==
    /\ status = <<"E", "n", "g", "i", "n", "e", "e", "r", "i", "n", "g", " ", "S", "t", "u", "d", "y", " ", "C", "o", "m", "p", "l", "e", "t", "e", "d", " ", "-", " ", "A", "p", "p", "r", "o", "v", "a", "l", " ", "R", "e", "c", "o", "m", "m", "e", "n", "d", "e", "d">>
    /\ maps_outcome = <<"approved">>
    /\ charts_outcome = <<"approved">>

-----------------------------------------------------------------------------
(* Street-name normalisation and the intersection lookups *)

\* the abbreviation table of _normalize_street_name, in dict order
abbrevs ==
    << << <<" ", "A", "V", "E">>, <<" ", "A", "V", "E", "N", "U", "E">> >>,
       << <<" ", "B", "L", "V", "D">>, <<" ", "B", "O", "U", "L", "E", "V", "A", "R", "D">> >>,
       << <<" ", "R", "D">>, <<" ", "R", "O", "A", "D">> >>,
       << <<" ", "S", "T">>, <<" ", "S", "T", "R", "E", "E", "T">> >>,
       << <<" ", "P", "L">>, <<" ", "P", "L", "A", "C", "E">> >>,
       << <<" ", "D", "R">>, <<" ", "D", "R", "I", "V", "E">> >>,
       << <<" ", "L", "N">>, <<" ", "L", "A", "N", "E">> >>,
       << <<" ", "C", "T">>, <<" ", "C", "O", "U", "R", "T">> >>,
       << <<" ", "P", "K", "W", "Y">>, <<" ", "P", "A", "R", "K", "W", "A", "Y">> >>,
       << <<" ", "T", "P", "K", "E">>, <<" ", "T", "U", "R", "N", "P", "I", "K", "E">> >>,
       << <<" ", "E", "X", "P", "W", "Y">>, <<" ", "E", "X", "P", "R", "E", "S", "S", "W", "A", "Y">> >> >>

\* the loop over abbrevs.items(): every entry is tried in turn on the current s
RECURSIVE expand_abbrevs(_, _)
expand_abbrevs(s, k) ==
    IF k > Len(abbrevs) THEN s
    ELSE LET abbr == abbrevs[k][1]
             full == abbrevs[k][2]
         IN  expand_abbrevs(IF endswith(s, abbr)
                            THEN SubSeq(s, 1, Len(s) - Len(abbr)) \o full
                            ELSE s, k + 1)

\* _normalize_street_name with the table applied to a name that is an
\* abbreviation alone as well
_normalize_street_name_lone_abbreviation(name) ==
    IF isna(name) \/ strip(name) = <<>> THEN <<>>
    ELSE Tail(expand_abbrevs(<<" ">> \o join_split(upper(strip(name))), 1))

\* '' is the empty sequence
_normalize_street_name(name) ==
    IF isna(name) \/ strip(name) = <<>> THEN <<>>
    ELSE expand_abbrevs(join_split(upper(strip(name))), 1)

\* sorted list of integers (ascending), by insertion
RECURSIVE insert_sorted(_, _)
insert_sorted(s, x) ==
    IF s = <<>> THEN <<x>>
    ELSE IF x <= Head(s) THEN <<x>> \o s
    ELSE <<Head(s)>> \o insert_sorted(Tail(s), x)

RECURSIVE sort_ints(_)
sort_ints(s) == IF s = <<>> THEN <<>> ELSE insert_sorted(sort_ints(Tail(s)), Head(s))

\* pandas' median of a non-empty column of grid values <<n, 1>>: the middle
\* value, or the mean of the two middle values
median(vals) ==
    LET s == sort_ints([i \in 1..Len(vals) |-> vals[i][1]])
        n == Len(s)
    IN  IF n % 2 = 1 THEN Num(s[(n + 1) \div 2])
        ELSE Rat(s[n \div 2] + s[(n \div 2) + 1], 2)

\* _build_crash_location_lookup: key (sorted pair) -> [lat, lon, n]
_build_crash_location_lookup(crash_tab) ==
    LET df0 == Filter(crash_tab, [i \in 1..Len(crash_tab) |->
                  /\ notna(crash_tab[i].on_street_name)
                  /\ notna(crash_tab[i].off_street_name)
                  /\ notna(crash_tab[i].latitude)
                  /\ notna(crash_tab[i].longitude)])
        df1 == [i \in 1..Len(df0) |->
                  [street_a |-> _normalize_street_name(df0[i].on_street_name),
                   street_b |-> _normalize_street_name(df0[i].off_street_name),
                   latitude |-> df0[i].latitude,
                   longitude |-> df0[i].longitude]]
        df == Filter(df1, [i \in 1..Len(df1) |-> df1[i].street_a # <<>> /\ df1[i].street_b # <<>>])
        key(i) == sorted_pair(df[i].street_a, df[i].street_b)
        keys == {key(i) : i \in 1..Len(df)}
        group(k) == Filter(df, [i \in 1..Len(df) |-> key(i) = k])
    IN  [k \in keys |->
            [lat |-> median([i \in 1..Len(group(k)) |-> group(k)[i].latitude]),
             lon |-> median([i \in 1..Len(group(k)) |-> group(k)[i].longitude]),
             n |-> Len(group(k))]]

\* dict update without the test: "results[key] = value"
put_always(results, key, value) ==
    [k \in DOMAIN results \cup {key} |-> IF k = key THEN value ELSE results[k]]

\* dict update "if key not in results: results[key] = value"
put_if_absent(results, key, value) ==
    IF key \in DOMAIN results THEN results
    ELSE [k \in DOMAIN results \cup {key} |-> IF k = key THEN value ELSE results[k]]

\* _build_srts_location_lookup: key (sorted pair) -> <<lat, lon>>, first row wins
RECURSIVE srts_lookup_rows(_, _)
srts_lookup_rows(df, results) ==
    IF df = <<>> THEN results
    ELSE LET row == Head(df)
             main == _normalize_street_name(row.onstreet)
             from_st == _normalize_street_name(row.fromstreet)
             to_st == _normalize_street_name(row.tostreet)
             val == <<row.fromlatitude, row.fromlongitude>>
             r1 == IF main # <<>> /\ from_st # <<>>
                   THEN put_if_absent(results, sorted_pair(main, from_st), val)
                   ELSE results
             r2 == IF main # <<>> /\ to_st # <<>>
                   THEN put_if_absent(r1, sorted_pair(main, to_st), val)
                   ELSE r1
         IN  srts_lookup_rows(Tail(df), r2)

empty_dict == [k \in {} |-> <<>>]

_build_srts_location_lookup(srts_tab) ==
    srts_lookup_rows(
        Filter(srts_tab, [i \in 1..Len(srts_tab) |->
            notna(srts_tab[i].fromlatitude) /\ notna(srts_tab[i].fromlongitude)]),
        empty_dict)

-----------------------------------------------------------------------------
(* Street regression lines and their intersection *)

RECURSIVE SetToSeq(_)
SetToSeq(S) ==
    IF S = {} THEN <<>>
    ELSE LET x == CHOOSE y \in S : TRUE IN <<x>> \o SetToSeq(S \ {x})

RECURSIVE RatSum(_)
RatSum(s) == IF s = <<>> THEN Num(0) ELSE RatAdd(Head(s), RatSum(Tail(s)))

\* street_points[street]: the <<lon, lat>> points accumulated for a street, one
\* per lookup entry and per position of the street in the entry's key
street_points(crash_lookup_, srts_lookup_, street) ==
    LET from_crash == SetToSeq({<<k, p>> \in (DOMAIN crash_lookup_) \X {1, 2} : k[p] = street})
        from_srts == SetToSeq({<<k, p>> \in (DOMAIN srts_lookup_) \X {1, 2} : k[p] = street})
    IN  [i \in 1..Len(from_crash) |->
            <<crash_lookup_[from_crash[i][1]].lon, crash_lookup_[from_crash[i][1]].lat>>]
        \o [i \in 1..Len(from_srts) |->
            <<srts_lookup_[from_srts[i][1]][2], srts_lookup_[from_srts[i][1]][1]>>]

\* n * sum(x^2) - (sum x)^2, which is n^2 times the variance of the longitudes
lon_spread(points) ==
    LET n == Num(Len(points))
        Sx == RatSum([i \in 1..Len(points) |-> points[i][1]])
        Sxx == RatSum([i \in 1..Len(points) |-> RatMul(points[i][1], points[i][1])])
    IN  RatSub(RatMul(n, Sxx), RatMul(Sx, Sx))

\* np.polyfit(lons, lats, 1): the least-squares line, <<slope, intercept>>,
\* each coefficient a float
polyfit1(points) ==
    LET n == Num(Len(points))
        Sx == RatSum([i \in 1..Len(points) |-> points[i][1]])
        Sy == RatSum([i \in 1..Len(points) |-> points[i][2]])
        Sxy == RatSum([i \in 1..Len(points) |-> RatMul(points[i][1], points[i][2])])
        slope == RatDiv(RatSub(RatMul(n, Sxy), RatMul(Sx, Sy)), lon_spread(points))
        intercept == RatDiv(RatSub(Sy, RatMul(slope, Sx)), n)
    IN  <<fl(slope), fl(intercept)>>

\* a street has a line when it has at least 2 points and np.std(lons) >= 1e-8;
\* on the grid the standard deviation is below 1e-8 only when it is 0
has_line(points) == Len(points) >= 2 /\ lon_spread(points) # Num(0)

\* _build_street_lines: street -> <<slope, intercept>>
_build_street_lines(crash_lookup_, srts_lookup_) ==
    LET streets == {k[p] : k \in (DOMAIN crash_lookup_) \cup (DOMAIN srts_lookup_), p \in {1, 2}}
        fitted == {s \in streets : has_line(street_points(crash_lookup_, srts_lookup_, s))}
    IN  [s \in fitted |-> polyfit1(street_points(crash_lookup_, srts_lookup_, s))]

\* _intersect_lines: <<lat, lon>>, or <<>> (None) when the lines are parallel;
\* on the grid two slopes differ by less than 1e-10 only when they are equal
_intersect_lines(line1, line2) ==
    LET s1 == line1[1]
        i1 == line1[2]
        s2 == line2[1]
        i2 == line2[2]
        lon == fl(RatDiv(fl(RatSub(i2, i1)), fl(RatSub(s1, s2))))
        lat == fl(RatAdd(fl(RatMul(s1, lon)), i1))
    IN  IF s1 = s2 THEN <<>> ELSE <<lat, lon>>

-----------------------------------------------------------------------------
(* geocode_signal_studies *)

\* _in_cb5(lat, lon)
_in_cb5(lat, lon) == contains(_load_cb5_polygon, lon, lat)

\* Tier 1 without the polygon test on the crash coordinate
tier1_row_no_polygon_test(row, crash_keys) ==
    LET key == sorted_pair(row.main_norm, row.cross_norm)
    IN  IF row.main_norm = <<>> \/ row.cross_norm = <<>> THEN row
        ELSE IF key \in DOMAIN crash_keys
        THEN [row EXCEPT !.latitude = crash_keys[key][1], !.longitude = crash_keys[key][2],
                         !.geocode_tier = "crash"]
        ELSE row

\* the three tier loops; each leaves a row it does not resolve as it is
tier1_row(row, crash_keys) ==
    LET key == sorted_pair(row.main_norm, row.cross_norm)
    IN  IF row.main_norm = <<>> \/ row.cross_norm = <<>> THEN row
        ELSE IF key \in DOMAIN crash_keys /\ _in_cb5(crash_keys[key][1], crash_keys[key][2])
        THEN [row EXCEPT !.latitude = crash_keys[key][1], !.longitude = crash_keys[key][2],
                         !.geocode_tier = "crash"]
        ELSE row

\* Tier 2 without the skip of rows that already have a coordinate
tier2_row_no_skip(row, srts_lookup_) ==
    LET key == sorted_pair(row.main_norm, row.cross_norm)
    IN  IF row.main_norm = <<>> \/ row.cross_norm = <<>> THEN row
        ELSE IF key \in DOMAIN srts_lookup_ /\ _in_cb5(srts_lookup_[key][1], srts_lookup_[key][2])
        THEN [row EXCEPT !.latitude = srts_lookup_[key][1], !.longitude = srts_lookup_[key][2],
                         !.geocode_tier = "srts"]
        ELSE row

tier2_row(row, srts_lookup_) ==
    LET key == sorted_pair(row.main_norm, row.cross_norm)
    IN  IF ~isna(row.latitude) THEN row
        ELSE IF row.main_norm = <<>> \/ row.cross_norm = <<>> THEN row
        ELSE IF key \in DOMAIN srts_lookup_ /\ _in_cb5(srts_lookup_[key][1], srts_lookup_[key][2])
        THEN [row EXCEPT !.latitude = srts_lookup_[key][1], !.longitude = srts_lookup_[key][2],
                         !.geocode_tier = "srts"]
        ELSE row

\* Tier 3 without the polygon test on the crossing
tier3_row_no_polygon_test(row, street_lines) ==
    LET result == _intersect_lines(street_lines[row.main_norm], street_lines[row.cross_norm])
    IN  IF ~isna(row.latitude) THEN row
        ELSE IF row.main_norm = <<>> \/ row.cross_norm = <<>> THEN row
        ELSE IF row.main_norm \notin DOMAIN street_lines \/ row.cross_norm \notin DOMAIN street_lines
        THEN row
        ELSE IF result = <<>> THEN row
        ELSE [row EXCEPT !.latitude = result[1], !.longitude = result[2],
                         !.geocode_tier = "street_line"]

\* Tier 3 without the skip of rows that already have a coordinate
tier3_row_no_skip(row, street_lines) ==
    LET result == _intersect_lines(street_lines[row.main_norm], street_lines[row.cross_norm])
    IN  IF row.main_norm = <<>> \/ row.cross_norm = <<>> THEN row
        ELSE IF row.main_norm \notin DOMAIN street_lines \/ row.cross_norm \notin DOMAIN street_lines
        THEN row
        ELSE IF result = <<>> THEN row
        ELSE IF _in_cb5(result[1], result[2])
        THEN [row EXCEPT !.latitude = result[1], !.longitude = result[2],
                         !.geocode_tier = "street_line"]
        ELSE row

tier3_row(row, street_lines) ==
    LET result == _intersect_lines(street_lines[row.main_norm], street_lines[row.cross_norm])
    IN  IF ~isna(row.latitude) THEN row
        ELSE IF row.main_norm = <<>> \/ row.cross_norm = <<>> THEN row
        ELSE IF row.main_norm \notin DOMAIN street_lines \/ row.cross_norm \notin DOMAIN street_lines
        THEN row
        ELSE IF result = <<>> THEN row
        ELSE IF _in_cb5(result[1], result[2])
        THEN [row EXCEPT !.latitude = result[1], !.longitude = result[2],
                         !.geocode_tier = "street_line"]
        ELSE row

\* crash_keys: tuple(sorted([street_a, street_b])) -> (lat, lon)
crash_keys_of(crash_lookup_) ==
    [k \in {sorted_pair(j[1], j[2]) : j \in DOMAIN crash_lookup_} |->
        LET j == CHOOSE j \in DOMAIN crash_lookup_ : sorted_pair(j[1], j[2]) = k
        IN  <<crash_lookup_[j].lat, crash_lookup_[j].lon>>]

\* DataFrame.to_csv followed by pd.read_csv: an empty text cell comes back
\* as NaN; numbers and non-empty texts come back as written
read_csv_tier(tier) == IF tier = "" THEN "nan" ELSE tier

read_csv(rows) ==
    [i \in 1..Len(rows) |->
        [rows[i] EXCEPT !.geocode_tier = read_csv_tier(rows[i].geocode_tier)]]

\* the cache path with the file written back on every run
GeocodeFromCacheAlwaysWrites ==
    /\ pc = "geocode"
    /\ cacheFile # <<>>
    /\ LET cache == read_csv(cacheFile[1])
           outside == [i \in 1..Len(cache) |->
                             notna(cache[i].latitude) /\ notna(cache[i].longitude)
                                 /\ ~_in_cb5(cache[i].latitude, cache[i].longitude)]
           cleaned == [i \in 1..Len(cache) |->
                          IF outside[i]
                          THEN [cache[i] EXCEPT !.latitude = NaN, !.longitude = NaN,
                                                !.geocode_tier = ""]
                          ELSE cache[i]]
       IN  /\ cacheFile' = <<cleaned>>
           /\ wrote' = TRUE
           /\ signal_geo' = <<cleaned>>
    /\ pc' = "returned"
    /\ UNCHANGED <<poly, srts, filterVars, classVars, proxVars, restVars, cb5_no_aps, crashes,
                   crash_lookup, srts_lookup, geo, runs>>

\* the cache path with Tier 1 tried again on the records without coordinates
GeocodeFromCacheRetriesTier1 ==
    /\ pc = "geocode"
    /\ cacheFile # <<>>
    /\ LET cache == read_csv(cacheFile[1])
           outside == [i \in 1..Len(cache) |->
                             notna(cache[i].latitude) /\ notna(cache[i].longitude)
                                 /\ ~_in_cb5(cache[i].latitude, cache[i].longitude)]
           cleaned == [i \in 1..Len(cache) |->
                          IF outside[i]
                          THEN [cache[i] EXCEPT !.latitude = NaN, !.longitude = NaN,
                                                !.geocode_tier = ""]
                          ELSE cache[i]]
           retried == [i \in 1..Len(cache) |->
                          IF isna(cleaned[i].latitude)
                          THEN tier1_row(cleaned[i],
                                         crash_keys_of(_build_crash_location_lookup(crashes)))
                          ELSE cleaned[i]]
       IN  /\ cacheFile' = <<retried>>
           /\ wrote' = TRUE
           /\ signal_geo' = <<retried>>
    /\ pc' = "returned"
    /\ UNCHANGED <<poly, srts, filterVars, classVars, proxVars, restVars, cb5_no_aps, crashes,
                   crash_lookup, srts_lookup, geo, runs>>

\* lines 462-479: the cache file exists
GeocodeFromCache ==
    /\ pc = "geocode"
    /\ cacheFile # <<>>
    /\ LET cache == read_csv(cacheFile[1])
           has_coords == [i \in 1..Len(cache) |->
                             notna(cache[i].latitude) /\ notna(cache[i].longitude)]
           outside == [i \in 1..Len(cache) |->
                             has_coords[i] /\ ~_in_cb5(cache[i].latitude, cache[i].longitude)]
           n_outside == Count(outside)
           cleaned == [i \in 1..Len(cache) |->
                          IF outside[i]
                          THEN [cache[i] EXCEPT !.latitude = NaN, !.longitude = NaN,
                                                !.geocode_tier = ""]
                          ELSE cache[i]]
       IN  IF n_outside > 0
           THEN /\ cacheFile' = <<cleaned>>
                /\ wrote' = TRUE
                /\ signal_geo' = <<cleaned>>
           ELSE /\ UNCHANGED cacheFile
                /\ wrote' = FALSE
                /\ signal_geo' = <<cache>>
    /\ pc' = "returned"
    /\ UNCHANGED <<poly, srts, filterVars, classVars, proxVars, restVars, cb5_no_aps, crashes,
                   crash_lookup, srts_lookup, geo, runs>>

\* lines 481-499: no cache file; normalise the names, build the lookups, set up
\* the result arrays
BuildLookups ==
    /\ pc = "geocode"
    /\ cacheFile = <<>>
    /\ geo' = [i \in 1..Len(cb5_no_aps) |->
                  [mainstreet |-> cb5_no_aps[i].mainstreet,
                   crossstreet1 |-> cb5_no_aps[i].crossstreet1,
                   main_norm |-> _normalize_street_name(cb5_no_aps[i].mainstreet),
                   cross_norm |-> _normalize_street_name(cb5_no_aps[i].crossstreet1),
                   latitude |-> NaN, longitude |-> NaN, geocode_tier |-> ""]]
    /\ crash_lookup' = _build_crash_location_lookup(crashes)
    /\ srts_lookup' = _build_srts_location_lookup(srts)
    /\ pc' = "tier1"
    /\ UNCHANGED <<poly, srts, filterVars, classVars, proxVars, restVars, cb5_no_aps, crashes, cacheFile,
                   signal_geo, wrote, runs>>

\* lines 501-524
Tier1 ==
    /\ pc = "tier1"
    /\ geo' = [i \in 1..Len(geo) |-> tier1_row(geo[i], crash_keys_of(crash_lookup))]
    /\ pc' = "tier2"
    /\ UNCHANGED <<poly, srts, filterVars, classVars, proxVars, restVars, cb5_no_aps, crashes, cacheFile,
                   crash_lookup, srts_lookup, signal_geo, wrote, runs>>

\* lines 526-546
Tier2 ==
    /\ pc = "tier2"
    /\ geo' = [i \in 1..Len(geo) |-> tier2_row(geo[i], srts_lookup)]
    /\ pc' = "tier3"
    /\ UNCHANGED <<poly, srts, filterVars, classVars, proxVars, restVars, cb5_no_aps, crashes, cacheFile,
                   crash_lookup, srts_lookup, signal_geo, wrote, runs>>

\* lines 548-575
Tier3 ==
    /\ pc = "tier3"
    /\ geo' = [i \in 1..Len(geo) |->
                  tier3_row(geo[i], _build_street_lines(crash_lookup, srts_lookup))]
    /\ pc' = "save"
    /\ UNCHANGED <<poly, srts, filterVars, classVars, proxVars, restVars, cb5_no_aps, crashes, cacheFile,
                   crash_lookup, srts_lookup, signal_geo, wrote, runs>>

\* the end of a fresh run without the write of the cache file
SaveCacheWithoutWrite ==
    /\ pc = "save"
    /\ signal_geo' = <<geo>>
    /\ pc' = "returned"
    /\ UNCHANGED <<poly, srts, filterVars, classVars, proxVars, restVars, cb5_no_aps, crashes,
                   crash_lookup, srts_lookup, geo, runs, cacheFile, wrote>>

\* lines 581-597
SaveCache ==
    /\ pc = "save"
    /\ cacheFile' = <<geo>>
    /\ wrote' = TRUE
    /\ signal_geo' = <<geo>>
    /\ pc' = "returned"
    /\ UNCHANGED <<poly, srts, filterVars, classVars, proxVars, restVars, cb5_no_aps, crashes,
                   crash_lookup, srts_lookup, geo, runs>>

\* between two runs of the pipeline the boundary file may have been replaced
\* (a corrected polygon); the cache file stays where the last run left it
NextRun ==
    /\ pc = "returned"
    /\ runs < MaxRuns
    /\ runs' = runs + 1
    /\ poly' \in 1..Len(Polygons)
    /\ pc' = "geocode"
    /\ signal_geo' = <<>>
    /\ wrote' = FALSE
    /\ crash_lookup' = <<>>
    /\ srts_lookup' = <<>>
    /\ geo' = <<>>
    /\ UNCHANGED <<srts, filterVars, classVars, proxVars, restVars, cb5_no_aps, crashes, cacheFile>>

\* candidate crash rows: on/off street and <<latitude, longitude>>
CrashRow(on, off, lat, lon) ==
    [on_street_name |-> on, off_street_name |-> off, latitude |-> lat, longitude |-> lon]

CrashCands ==
    << CrashRow(<<"A", " ", "S", "T">>, <<"B", " ", "A", "V", "E">>, Num(1), Num(1)),
       CrashRow(<<"b", " ", "a", "v", "e", "n", "u", "e">>, <<" ", "a", " ", " ", "s", "t", "r", "e", "e", "t">>, Num(1), Num(3)),
       CrashRow(<<"A", " ", "S", "T">>, <<"C", " ", "R", "D">>, Num(1), Num(0)),
       CrashRow(<<"B", " ", "A", "V", "E">>, <<"C", " ", "R", "D">>, Num(0), Num(0)) >>

\* a crash that is not at an intersection: no off street
CrashNoOffStreet == CrashRow(<<"A", " ", "S", "T">>, NaN, Num(2), Num(1))

\* the crash table: the candidates picked by a set of indices, in index order,
\* and a crash without off street
CrashTables ==
    {Append(Filter(CrashCands, [i \in 1..Len(CrashCands) |-> i \in pick]), CrashNoOffStreet) :
        pick \in SUBSET (1..Len(CrashCands))}

GeoSrtsRow(on, from, to, lat, lon) ==
    [onstreet |-> on, fromstreet |-> from, tostreet |-> to,
     fromlatitude |-> lat, fromlongitude |-> lon]

GeoSrtsCands ==
    { GeoSrtsRow(<<"A", " ", "S", "T">>, <<"B", " ", "A", "V", "E">>, <<"C", " ", "R", "D">>, Num(1), Num(2)),
      GeoSrtsRow(<<"B", " ", "A", "V", "E">>, <<"A", " ", "S", "T">>, NaN, Num(2), Num(1)),
      GeoSrtsRow(<<"C", " ", "R", "D">>, <<"B", " ", "A", "V", "E">>, <<"A", " ", "S", "T">>, Num(2), Num(3)) }

RequestRow(main, cross) == [mainstreet |-> main, crossstreet1 |-> cross]

RequestCands ==
    { RequestRow(<<"A", " ", "S", "T">>, <<"B", " ", "A", "V", "E">>),
      RequestRow(<<"B", " ", "A", "V", "E">>, <<"A", " ", "S", "T">>),
      RequestRow(<<"C", " ", "R", "D">>, <<"b", " ", "a", "v", "e">>) }

\* a request without cross street
RequestNoCross == RequestRow(<<"A", " ", "S", "T">>, NaN)

\* the request table: up to MaxRequests candidates and a request without cross
\* street
RequestTables == {Append(t, RequestNoCross) : t \in SeqsUpTo(RequestCands, MaxRequests) \ {<<>>}}

InitGeo ==
    /\ pc = "geocode"
    /\ poly \in 1..Len(Polygons)
    /\ srts \in SeqsUpTo(GeoSrtsCands, MaxSrts)
    /\ crashes \in CrashTables
    /\ cb5_no_aps \in RequestTables
    /\ cacheFile = <<>>
    /\ crash_lookup = <<>>
    /\ srts_lookup = <<>>
    /\ geo = <<>>
    /\ signal_geo = <<>>
    /\ wrote = FALSE
    /\ runs = 1
    /\ IdleFilter
    /\ IdleClassify
    /\ IdleProx
    /\ IdleRest

NextGeo ==
    \/ GeocodeFromCache
    \/ BuildLookups
    \/ Tier1
    \/ Tier2
    \/ Tier3
    \/ SaveCache
    \/ NextRun

SpecGeo == InitGeo /\ [][NextGeo]_vars

-----------------------------------------------------------------------------
(* Claims about the geocoder *)

\* a fresh run is past Tier 1 / past all tiers
FreshPastTier1 == pc \in {"tier2", "tier3", "save"} \/ (pc = "returned" /\ geo # <<>>)

FreshDone == pc = "save" \/ (pc = "returned" /\ geo # <<>>)

ReqKey(row) == sorted_pair(row.main_norm, row.cross_norm)

InBothLookups(row) ==
    /\ row.main_norm # <<>>
    /\ row.cross_norm # <<>>
    /\ ReqKey(row) \in DOMAIN crash_lookup
    /\ ReqKey(row) \in DOMAIN srts_lookup

CrashCoord(row) == <<crash_lookup[ReqKey(row)].lat, crash_lookup[ReqKey(row)].lon>>

SrtsCoord(row) == srts_lookup[ReqKey(row)]

Inside(c) == contains(Polygons[poly], c[2], c[1])

HasTier1Result(row) ==
    /\ <<row.latitude, row.longitude>> = CrashCoord(row)
    /\ row.geocode_tier = "crash"

\* C1 as stated: a request whose key is in both lookups always gets the
\* Tier 1 coordinate.
C1_BothLookupsAlwaysTier1 ==
    FreshDone => \A i \in 1..Len(geo) : InBothLookups(geo[i]) => HasTier1Result(geo[i])

\* C1 amended: a request whose key is in both lookups and whose crash
\* coordinate is inside the polygon gets the Tier 1 coordinate with tag crash,
\* from the end of Tier 1 to the end of the run.
C1_BothLookupsTier1WhenInside ==
    FreshPastTier1 =>
        \A i \in 1..Len(geo) :
            (InBothLookups(geo[i]) /\ Inside(CrashCoord(geo[i]))) => HasTier1Result(geo[i])

\* a finished run in which a request had two acceptable, different candidates
C1_Witness ==
    /\ pc = "returned"
    /\ geo # <<>>
    /\ \E i \in 1..Len(geo) :
          /\ InBothLookups(geo[i])
          /\ Inside(CrashCoord(geo[i]))
          /\ Inside(SrtsCoord(geo[i]))
          /\ SrtsCoord(geo[i]) # CrashCoord(geo[i])
          /\ signal_geo[1][i].geocode_tier = "crash"

HasCoords(row) == notna(row.latitude) /\ notna(row.longitude)

AllCoordsInside(rows) ==
    \A i \in 1..Len(rows) : HasCoords(rows[i]) => Inside(<<rows[i].latitude, rows[i].longitude>>)

\* a step of the cache path resets every cached point that is outside the
\* current polygon
CachePathInvalidates ==
    (pc = "geocode" /\ cacheFile # <<>> /\ pc' = "returned") =>
        \A i \in 1..Len(cacheFile[1]) :
            (HasCoords(cacheFile[1][i])
                /\ ~Inside(<<cacheFile[1][i].latitude, cacheFile[1][i].longitude>>))
            => /\ signal_geo'[1][i].latitude = NaN
               /\ signal_geo'[1][i].longitude = NaN
               /\ signal_geo'[1][i].geocode_tier = ""

\* C4: every returned record with coordinates lies inside the current polygon,
\* in a fresh run after each tier and on the cache path, where each cached
\* point now outside the polygon is reset to null coordinates and an empty tag.
C4_ReturnedCoordsInsidePolygon ==
    /\ [](signal_geo # <<>> => AllCoordsInside(signal_geo[1]))
    /\ [](FreshPastTier1 => AllCoordsInside(geo))
    /\ [][CachePathInvalidates]_vars

\* the cache path has invalidated one cached point and kept another
C4_Witness ==
    /\ pc = "returned"
    /\ geo = <<>>
    /\ wrote
    /\ \E i, j \in 1..Len(signal_geo[1]) :
          /\ isna(signal_geo[1][i].latitude)
          /\ signal_geo[1][i].geocode_tier = ""
          /\ HasCoords(signal_geo[1][j])

\* whether a tier, taken alone, has an acceptable candidate for a request
NamesGiven(row) == row.main_norm # <<>> /\ row.cross_norm # <<>>

Tier1Succeeds(row) ==
    NamesGiven(row) /\ ReqKey(row) \in DOMAIN crash_lookup /\ Inside(CrashCoord(row))

Tier2Succeeds(row) ==
    NamesGiven(row) /\ ReqKey(row) \in DOMAIN srts_lookup /\ Inside(SrtsCoord(row))

LineCandidate(row) ==
    LET lines == _build_street_lines(crash_lookup, srts_lookup)
    IN  IF row.main_norm \in DOMAIN lines /\ row.cross_norm \in DOMAIN lines
        THEN _intersect_lines(lines[row.main_norm], lines[row.cross_norm])
        ELSE <<>>

Tier3Succeeds(row) ==
    NamesGiven(row) /\ LineCandidate(row) # <<>> /\ Inside(LineCandidate(row))

FirstTier(row) ==
    IF Tier1Succeeds(row) THEN "crash"
    ELSE IF Tier2Succeeds(row) THEN "srts"
    ELSE IF Tier3Succeeds(row) THEN "street_line"
    ELSE ""

\* a later tier leaves a resolved request as it is
ResolvedRowsKept ==
    pc \in {"tier2", "tier3", "save"} =>
        \A i \in 1..Len(geo) : notna(geo[i].latitude) => geo'[i] = geo[i]

\* C5: in a fresh run a resolved request is skipped by the later tiers; at the
\* end each request is unresolved (null coordinates, empty tag) or has
\* coordinates and the tag of the first tier, in the order crash, srts,
\* street_line, that succeeded for it.
C5_FirstSucceedingTierWins ==
    /\ [][ResolvedRowsKept]_vars
    /\ [](FreshDone =>
            \A i \in 1..Len(geo) :
                /\ geo[i].geocode_tier = FirstTier(geo[i])
                /\ geo[i].geocode_tier \in {"", "crash", "srts", "street_line"}
                /\ (geo[i].geocode_tier = "") <=> isna(geo[i].latitude)
                /\ isna(geo[i].latitude) <=> isna(geo[i].longitude))
    /\ []((pc = "returned" /\ geo # <<>>) => signal_geo = <<geo>>)

\* a request resolved by Tier 2 for which Tier 3 had a candidate as well, and
\* a request no tier resolved
C5_Witness ==
    /\ pc = "returned"
    /\ geo # <<>>
    /\ \E i, j \in 1..Len(geo) :
          /\ geo[i].geocode_tier = "srts"
          /\ Tier3Succeeds(geo[i])
          /\ NamesGiven(geo[j])
          /\ geo[j].geocode_tier = ""

Swapped(r, s) == r.mainstreet = s.crossstreet1 /\ r.crossstreet1 = s.mainstreet

ValidCrash(c) ==
    /\ notna(c.on_street_name) /\ notna(c.off_street_name)
    /\ notna(c.latitude) /\ notna(c.longitude)
    /\ _normalize_street_name(c.on_street_name) # <<>>
    /\ _normalize_street_name(c.off_street_name) # <<>>

CrashStreets(c) == {_normalize_street_name(c.on_street_name), _normalize_street_name(c.off_street_name)}

\* every crash with a given pair of streets, in either order, is in one entry
CrashKeysUnordered ==
    /\ \A k \in DOMAIN crash_lookup :
          crash_lookup[k].n = Cardinality({i \in 1..Len(crashes) :
              ValidCrash(crashes[i]) /\ CrashStreets(crashes[i]) = {k[1], k[2]}})
    /\ \A i \in 1..Len(crashes) :
          ValidCrash(crashes[i]) =>
              \E k \in DOMAIN crash_lookup : CrashStreets(crashes[i]) = {k[1], k[2]}

SwappedSameKey ==
    \A i, j \in 1..Len(geo) :
        Swapped(geo[i], geo[j]) => ReqKey(geo[i]) = ReqKey(geo[j])

SwappedSameResult ==
    \A i, j \in 1..Len(geo) :
        Swapped(geo[i], geo[j]) =>
            /\ geo[i].latitude = geo[j].latitude
            /\ geo[i].longitude = geo[j].longitude
            /\ geo[i].geocode_tier = geo[j].geocode_tier

\* C6: two requests that differ by swapping main and cross street have the
\* same key and get the same coordinate and tier, whichever tier resolves
\* them, and a crash with on/off street swapped counts for the same key.
C6_SwappedRequestsSameResult ==
    /\ FreshPastTier1 => (SwappedSameKey /\ CrashKeysUnordered)
    /\ FreshDone => SwappedSameResult

\* the part of C6 that the code satisfies: the keys, and the results of the
\* two lookup tiers
C6_SwappedSameLookupResult ==
    /\ FreshPastTier1 => (SwappedSameKey /\ CrashKeysUnordered)
    /\ FreshDone =>
          \A i, j \in 1..Len(geo) :
              (Swapped(geo[i], geo[j]) /\ geo[i].geocode_tier \in {"crash", "srts"}) =>
                  /\ geo[i].latitude = geo[j].latitude
                  /\ geo[i].longitude = geo[j].longitude
                  /\ geo[i].geocode_tier = geo[j].geocode_tier

\* swapped requests resolved by Tier 3 keep tier and longitude
C6_SwappedSameTierAndLongitude ==
    FreshDone =>
        \A i, j \in 1..Len(geo) :
            Swapped(geo[i], geo[j]) =>
                /\ geo[i].longitude = geo[j].longitude
                /\ geo[i].geocode_tier = geo[j].geocode_tier

-----------------------------------------------------------------------------
(* Proximity aggregation: compute_proximity, run_proximity_analysis *)

PROXIMITY_RADIUS_M == 150

\* The proximity grid: latitude index 0..4 and longitude index 0..2 stand for
\* 40.7 N + k * (50 m / R) and 73.9 W + j * (50 m / R), R = 6371000 m.
\* HaversineTable[lat1 + 1][lat2 + 1][|lon2 - lon1| + 1] is the value of
\* _haversine_vectorized for two grid points, in millimetres.
HaversineTable ==
    <<
       << <<0, 37907, 75813>>, <<50000, 62745, 90817>>, <<100000, 106943, 125489>>, <<150000, 154716, 168070>>, <<200000, 203561, 213887>> >>,
       << <<50000, 62745, 90817>>, <<0, 37906, 75813>>, <<50000, 62745, 90816>>, <<100000, 106943, 125489>>, <<150000, 154715, 168070>> >>,
       << <<100000, 106943, 125489>>, <<50000, 62745, 90816>>, <<0, 37906, 75812>>, <<50000, 62744, 90816>>, <<100000, 106943, 125489>> >>,
       << <<150000, 154716, 168070>>, <<100000, 106943, 125489>>, <<50000, 62744, 90816>>, <<0, 37906, 75812>>, <<50000, 62744, 90815>> >>,
       << <<200000, 203561, 213887>>, <<150000, 154715, 168070>>, <<100000, 106943, 125489>>, <<50000, 62744, 90815>>, <<0, 37906, 75811>> >>
    >>

\* distance in millimetres from one grid point to another
_haversine_vectorized(lat1, lon1, lat2, lon2) ==
    HaversineTable[lat1[1] + 1][lat2[1] + 1][Abs(lon2[1] - lon1[1]) + 1]

\* crash_xxx[mask].sum()
RECURSIVE masked_sum(_, _, _)
masked_sum(tab, mask, col) ==
    IF tab = <<>> THEN Num(0)
    ELSE RatAdd(IF mask[1] THEN Head(tab)[col] ELSE Num(0),
                masked_sum(Tail(tab), [i \in 1..(Len(tab) - 1) |-> mask[i + 1]], col))

\* the loop body with the comparison turned round: mask dists >= radius_m
proximity_row_beyond(row, crash_tab, radius) ==
    LET lat == row.latitude
        lon == row.longitude
        mask == [j \in 1..Len(crash_tab) |->
                    _haversine_vectorized(lat, lon, crash_tab[j].latitude, crash_tab[j].longitude)
                        >= radius * 1000]
    IN  IF isna(lat) \/ isna(lon)
        THEN [crashes_150m |-> NaN, injuries_150m |-> NaN,
              ped_injuries_150m |-> NaN, fatalities_150m |-> NaN]
        ELSE [crashes_150m |-> Num(Count(mask)),
              injuries_150m |-> masked_sum(crash_tab, mask, "number_of_persons_injured"),
              ped_injuries_150m |-> masked_sum(crash_tab, mask, "number_of_pedestrians_injured"),
              fatalities_150m |-> masked_sum(crash_tab, mask, "number_of_persons_killed")]

\* the loop body with the mask dists < radius_m
proximity_row_strict(row, crash_tab, radius) ==
    LET lat == row.latitude
        lon == row.longitude
        mask == [j \in 1..Len(crash_tab) |->
                    _haversine_vectorized(lat, lon, crash_tab[j].latitude, crash_tab[j].longitude)
                        < radius * 1000]
    IN  IF isna(lat) \/ isna(lon)
        THEN [crashes_150m |-> NaN, injuries_150m |-> NaN,
              ped_injuries_150m |-> NaN, fatalities_150m |-> NaN]
        ELSE [crashes_150m |-> Num(Count(mask)),
              injuries_150m |-> masked_sum(crash_tab, mask, "number_of_persons_injured"),
              ped_injuries_150m |-> masked_sum(crash_tab, mask, "number_of_pedestrians_injured"),
              fatalities_150m |-> masked_sum(crash_tab, mask, "number_of_persons_killed")]

\* the loop body of compute_proximity for one location
proximity_row(row, crash_tab, radius) ==
    LET lat == row.latitude
        lon == row.longitude
        mask == [j \in 1..Len(crash_tab) |->
                    _haversine_vectorized(lat, lon, crash_tab[j].latitude, crash_tab[j].longitude)
                        <= radius * 1000]
    IN  IF isna(lat) \/ isna(lon)
        THEN [crashes_150m |-> NaN, injuries_150m |-> NaN,
              ped_injuries_150m |-> NaN, fatalities_150m |-> NaN]
        ELSE [crashes_150m |-> Num(Count(mask)),
              injuries_150m |-> masked_sum(crash_tab, mask, "number_of_persons_injured"),
              ped_injuries_150m |-> masked_sum(crash_tab, mask, "number_of_pedestrians_injured"),
              fatalities_150m |-> masked_sum(crash_tab, mask, "number_of_persons_killed")]

\* compute_proximity with zeros for a location without coordinates
compute_proximity_zero_for_null(locs, crash_tab, radius) ==
    [i \in 1..Len(locs) |->
        LET m == proximity_row(locs[i], crash_tab, radius)
            z(v) == IF isna(v) THEN Num(0) ELSE v
        IN  [referencenumber |-> locs[i].referencenumber,
             latitude |-> locs[i].latitude,
             longitude |-> locs[i].longitude,
             crashes_150m |-> z(m.crashes_150m),
             injuries_150m |-> z(m.injuries_150m),
             ped_injuries_150m |-> z(m.ped_injuries_150m),
             fatalities_150m |-> z(m.fatalities_150m)]]

\* compute_proximity: the locations with the four metric columns added
compute_proximity(locs, crash_tab, radius) ==
    [i \in 1..Len(locs) |->
        LET m == proximity_row(locs[i], crash_tab, radius)
        IN  [referencenumber |-> locs[i].referencenumber,
             latitude |-> locs[i].latitude,
             longitude |-> locs[i].longitude,
             crashes_150m |-> m.crashes_150m,
             injuries_150m |-> m.injuries_150m,
             ped_injuries_150m |-> m.ped_injuries_150m,
             fatalities_150m |-> m.fatalities_150m]]

\* the signal-study part without the latitude.notna() selection
signal_proximity_no_selection(signal_geo_, cb5_crashes) ==
    compute_proximity(signal_geo_, cb5_crashes, PROXIMITY_RADIUS_M)

\* run_proximity_analysis, signal studies: lines 729-731
signal_proximity(signal_geo_, cb5_crashes) ==
    compute_proximity(
        Filter(signal_geo_, [i \in 1..Len(signal_geo_) |-> notna(signal_geo_[i].latitude)]),
        cb5_crashes, PROXIMITY_RADIUS_M)

\* run_proximity_analysis, SRTS: lines 733-738
srts_proximity(srts_df, cb5_crashes) ==
    LET srts_with_coords == [i \in 1..Len(srts_df) |->
            [referencenumber |-> srts_df[i].referencenumber,
             latitude |-> srts_df[i].fromlatitude,
             longitude |-> srts_df[i].fromlongitude]]
    IN  compute_proximity(
            Filter(srts_with_coords,
                   [i \in 1..Len(srts_with_coords) |-> notna(srts_with_coords[i].latitude)]),
            cb5_crashes, PROXIMITY_RADIUS_M)

\* candidate crashes around the location at grid point (0, 0): at the point,
\* 100 m, 150 m and 200 m north of it, and 125 m to the north-east; the injury
\* numbers of a crash differ from crash to crash
ProxCrash(lat, lon, inj, ped, killed) ==
    [latitude |-> Num(lat), longitude |-> Num(lon),
     number_of_persons_injured |-> Num(inj),
     number_of_pedestrians_injured |-> Num(ped),
     number_of_persons_killed |-> Num(killed)]

ProxCrashCands ==
    << ProxCrash(0, 0, 1, 0, 0),
       ProxCrash(2, 0, 2, 1, 0),
       ProxCrash(3, 0, 4, 2, 1),
       ProxCrash(4, 0, 8, 4, 2),
       ProxCrash(2, 2, 16, 8, 4) >>

ProxCrashTables ==
    {Filter(ProxCrashCands, [i \in 1..Len(ProxCrashCands) |-> i \in pick]) :
        pick \in SUBSET (1..Len(ProxCrashCands))}

\* <<latitude, longitude>> of the candidate locations
ProxLocCoords ==
    { <<NaN, NaN>>, <<NaN, Num(0)>>, <<Num(0), NaN>>, <<Num(0), Num(0)>>, <<Num(1), Num(1)>> }

ProxLocTables ==
    {[i \in 1..Len(t) |-> [referencenumber |-> i, latitude |-> t[i][1], longitude |-> t[i][2]]] :
        t \in SeqsUpTo(ProxLocCoords, MaxLocations)}

\* the SRTS table handed to run_proximity_analysis: polygon-filtered rows
ProxSrtsTables ==
    { <<>>,
      << [referencenumber |-> 1, fromlatitude |-> Num(1), fromlongitude |-> Num(1)] >> }

Radii == {100, 150, 200}

\* what geocode_signal_studies returns: latitude and longitude are both null
\* or both given
GeocoderShaped(rows) == \A i \in 1..Len(rows) : isna(rows[i].latitude) <=> isna(rows[i].longitude)

InitProx ==
    /\ pc = "proximity"
    /\ poly = 1
    /\ srts \in ProxSrtsTables
    /\ locations_df \in ProxLocTables
    /\ crashes_df \in ProxCrashTables
    /\ radius_m \in Radii
    /\ prox_out = <<>>
    /\ signal_prox = <<>>
    /\ srts_prox = <<>>
    /\ IdleFilter
    /\ IdleClassify
    /\ IdleGeo
    /\ IdleRest

\* a call compute_proximity(locations_df, crashes_df, radius_m)
ComputeProximity ==
    /\ pc = "proximity"
    /\ prox_out' = <<compute_proximity(locations_df, crashes_df, radius_m)>>
    /\ pc' = "computed"
    /\ UNCHANGED <<poly, srts, filterVars, classVars, geoVars, restVars,
                   locations_df, crashes_df, radius_m, signal_prox, srts_prox>>

\* a call run_proximity_analysis(signal_geo, srts_df, cb5_crashes) with the
\* locations as signal_geo
RunProximityAnalysis ==
    /\ pc = "proximity"
    /\ GeocoderShaped(locations_df)
    /\ signal_prox' = <<signal_proximity(locations_df, crashes_df)>>
    /\ srts_prox' = <<srts_proximity(srts, crashes_df)>>
    /\ pc' = "analysed"
    /\ UNCHANGED <<poly, srts, filterVars, classVars, geoVars, restVars,
                   locations_df, crashes_df, radius_m, prox_out>>

NextProx == ComputeProximity \/ RunProximityAnalysis

SpecProx == InitProx /\ [][NextProx]_vars

\* geocode_signal_studies sets latitude and longitude together: its result,
\* which main hands to run_proximity_analysis, has both or neither
GeocoderOutputShaped == signal_geo # <<>> => GeocoderShaped(signal_geo[1])

-----------------------------------------------------------------------------
(* Proximity claims *)

\* the crashes of the table at most radius metres from a location
WithinRadius(loc, tab, radius) ==
    {j \in 1..Len(tab) :
        _haversine_vectorized(loc.latitude, loc.longitude, tab[j].latitude, tab[j].longitude)
            <= radius * 1000}

RECURSIVE SumOver(_, _, _)
SumOver(S, tab, col) ==
    IF S = {} THEN 0
    ELSE LET j == CHOOSE k \in S : TRUE
         IN  tab[j][col][1] + SumOver(S \ {j}, tab, col)

\* the distance in whole metres from the location to crash j, when it is one
MetresAway(loc, crash, m) ==
    _haversine_vectorized(loc.latitude, loc.longitude, crash.latitude, crash.longitude) = m * 1000

\* the persons-injured numbers of the candidate crashes are distinct powers
\* of two, so a sum of them tells which crashes were added up
SumIncludes(total, crash) ==
    (total[1] \div crash.number_of_persons_injured[1]) % 2 = 1

ProximityOfLocated(out, locs, tab, radius) ==
    \A i \in 1..Len(locs) :
        (notna(locs[i].latitude) /\ notna(locs[i].longitude)) =>
            LET near == WithinRadius(locs[i], tab, radius)
            IN  /\ out[i].crashes_150m = Num(Cardinality(near))
                /\ out[i].injuries_150m = Num(SumOver(near, tab, "number_of_persons_injured"))
                /\ out[i].ped_injuries_150m = Num(SumOver(near, tab, "number_of_pedestrians_injured"))
                /\ out[i].fatalities_150m = Num(SumOver(near, tab, "number_of_persons_killed"))
                /\ \A j \in 1..Len(tab) :
                      /\ MetresAway(locs[i], tab[j], radius) => SumIncludes(out[i].injuries_150m, tab[j])
                      /\ (radius = 150 /\ MetresAway(locs[i], tab[j], 100))
                            => SumIncludes(out[i].injuries_150m, tab[j])
                      /\ (radius = 150 /\ MetresAway(locs[i], tab[j], 200))
                            => ~SumIncludes(out[i].injuries_150m, tab[j])

\* C8: for a location with coordinates, compute_proximity's crash count is the
\* number of crashes whose haversine distance to the location is at most the
\* radius, a crash exactly at the radius included, and the injury,
\* pedestrian-injury and fatality values are the sums over exactly those
\* crashes; with radius 150 m a crash 100 m away is counted and one 200 m away
\* is not.
C8_CountsAndSumsWithinRadius ==
    (pc = "computed") => ProximityOfLocated(prox_out[1], locations_df, crashes_df, radius_m)

\* radius 150 m, a location with crashes 100 m, 150 m and 200 m away: the
\* first two are counted
C8_Witness ==
    /\ pc = "computed"
    /\ radius_m = 150
    /\ \E i \in 1..Len(locations_df) :
          /\ notna(locations_df[i].latitude) /\ notna(locations_df[i].longitude)
          /\ \E a, b, c \in 1..Len(crashes_df) :
                /\ MetresAway(locations_df[i], crashes_df[a], 100)
                /\ MetresAway(locations_df[i], crashes_df[b], 150)
                /\ MetresAway(locations_df[i], crashes_df[c], 200)
          /\ Len(crashes_df) = 3
          /\ prox_out[1][i].crashes_150m = Num(2)
          /\ prox_out[1][i].injuries_150m = Num(6)

AllMetricsNull(r) ==
    /\ isna(r.crashes_150m)
    /\ isna(r.injuries_150m)
    /\ isna(r.ped_injuries_150m)
    /\ isna(r.fatalities_150m)

OneRecordPerLocation(out, locs) ==
    /\ Len(out) = Len(locs)
    /\ \A i \in 1..Len(locs) :
          /\ out[i].referencenumber = locs[i].referencenumber
          /\ out[i].latitude = locs[i].latitude
          /\ out[i].longitude = locs[i].longitude
          /\ (isna(locs[i].latitude) \/ isna(locs[i].longitude)) => AllMetricsNull(out[i])

\* C9: compute_proximity returns exactly one record per input location, in
\* the input order, and a location whose latitude or longitude is null gets
\* null for all four metrics.
C9_OneRecordPerLocationNullForNull ==
    (pc = "computed") => OneRecordPerLocation(prox_out[1], locations_df)

\* a location with a latitude and no longitude, followed by a located one near
\* a crash: the first gets four nulls, the second a count
C9_Witness ==
    /\ pc = "computed"
    /\ Len(locations_df) = 2
    /\ notna(locations_df[1].latitude) /\ isna(locations_df[1].longitude)
    /\ notna(locations_df[2].latitude) /\ notna(locations_df[2].longitude)
    /\ AllMetricsNull(prox_out[1][1])
    /\ prox_out[1][2].crashes_150m = Num(1)

RECURSIVE located_refs(_)
located_refs(rows) ==
    IF rows = <<>> THEN <<>>
    ELSE IF isna(Head(rows).latitude) \/ isna(Head(rows).longitude)
         THEN located_refs(Tail(rows))
         ELSE <<Head(rows).referencenumber>> \o located_refs(Tail(rows))

OnlyLocatedRecords(out, requests) ==
    /\ [i \in 1..Len(out) |-> out[i].referencenumber] = located_refs(requests)
    /\ \A i \in 1..Len(out) :
          /\ notna(out[i].latitude)
          /\ notna(out[i].longitude)
          /\ notna(out[i].crashes_150m)

\* C10: a signal-study request that geocoding left with null coordinates does
\* not appear in the output of run_proximity_analysis, and every record of
\* that output has non-null coordinates and a non-null crash count.
C10_UnresolvedRequestsExcluded ==
    (pc = "analysed") =>
        /\ OnlyLocatedRecords(signal_prox[1], locations_df)
        /\ \A i \in 1..Len(srts_prox[1]) :
              /\ notna(srts_prox[1][i].latitude)
              /\ notna(srts_prox[1][i].longitude)
              /\ notna(srts_prox[1][i].crashes_150m)

\* an unresolved request before a resolved one: one record comes out, the
\* resolved request's
C10_Witness ==
    /\ pc = "analysed"
    /\ Len(locations_df) = 2
    /\ isna(locations_df[1].latitude) /\ isna(locations_df[1].longitude)
    /\ notna(locations_df[2].latitude)
    /\ Len(signal_prox[1]) = 1
    /\ signal_prox[1][1].referencenumber = 2
    /\ signal_prox[1][1].crashes_150m = Num(1)
    /\ Len(srts_prox[1]) = 1

\* the four metrics of output row a are at most those of output row b
MetricsAtMost(a, b) ==
    /\ a.crashes_150m[1] <= b.crashes_150m[1]
    /\ a.injuries_150m[1] <= b.injuries_150m[1]
    /\ a.ped_injuries_150m[1] <= b.ped_injuries_150m[1]
    /\ a.fatalities_150m[1] <= b.fatalities_150m[1]

Located(loc) == notna(loc.latitude) /\ notna(loc.longitude)

\* C11: for a fixed location and crash set, if r1 <= r2 then the crash count
\* for r1 is at most the crash count for r2, and so are the injury,
\* pedestrian-injury and fatality sums (the fields are non-negative).
C11_LargerRadiusNeverFewer ==
    (pc = "computed") =>
        \A r \in Radii :
            \A i \in 1..Len(locations_df) :
                Located(locations_df[i]) =>
                    LET other == compute_proximity(locations_df, crashes_df, r)[i]
                        this == prox_out[1][i]
                    IN  /\ (r <= radius_m) => MetricsAtMost(other, this)
                        /\ (radius_m <= r) => MetricsAtMost(this, other)

\* radius 200 m found strictly more crashes and injuries than radius 100 m does
C11_Witness ==
    /\ pc = "computed"
    /\ radius_m = 200
    /\ \E i \in 1..Len(locations_df) :
          /\ Located(locations_df[i])
          /\ LET small == compute_proximity(locations_df, crashes_df, 100)[i]
             IN  /\ small.crashes_150m[1] > 0
                 /\ small.crashes_150m[1] < prox_out[1][i].crashes_150m[1]
                 /\ small.fatalities_150m[1] < prox_out[1][i].fatalities_150m[1]

-----------------------------------------------------------------------------
(* Before-after analysis: _compute_before_after *)

\* Dates are day numbers counted from 2020-01-01; NaT is the missing value.
DATA_START == 0

\* pd.Timestamp('2025-12-31')
DATA_END_DEFAULT == 2191

MAX_WINDOW_MONTHS == 24

NaT == <<>>

\* A date cell of the CSV file is missing, <<d, 1>> (a text that parses to
\* day d) or <<0, 0>> (a text that is no date).
\* pd.to_datetime(cell, errors='coerce')
to_datetime(cell) ==
    IF isna(cell) THEN NaT
    ELSE IF cell[2] = 1 THEN <<cell[1]>>
    ELSE NaT

\* a.fillna(b)
fillna(a, b) == IF isna(a) THEN b ELSE a

\* drop_duplicates(subset='referencenumber'): the first row of each number stays
drop_duplicates(rows) ==
    Filter(rows, [i \in 1..Len(rows) |->
        \A j \in 1..(i - 1) : rows[j].referencenumber # rows[i].referencenumber])

\* the left merge with the de-duplicated cache: the coordinates of the cache
\* row with the same reference number, missing when there is none
merge_coords(row, cache) ==
    LET hits == {j \in 1..Len(cache) : cache[j].referencenumber = row.referencenumber}
    IN  IF hits = {}
        THEN [referencenumber |-> row.referencenumber, requesttype |-> row.requesttype,
              install_date |-> row.install_date, latitude |-> NaN, longitude |-> NaN]
        ELSE LET j == CHOOSE k \in hits : \A l \in hits : k <= l
             IN  [referencenumber |-> row.referencenumber, requesttype |-> row.requesttype,
                  install_date |-> row.install_date,
                  latitude |-> cache[j].latitude, longitude |-> cache[j].longitude]

\* the selection without the exclusion of Accessible Pedestrian Signal requests
select_installed_with_aps(studies, cache) ==
    LET approved == Filter(studies, [i \in 1..Len(studies) |->
                        _classify_outcome(studies[i].statusdescription) = "approved"])
        dated == Filter(approved, [i \in 1..Len(approved) |->
                        notna(approved[i].aw_installdate) \/ notna(approved[i].signalinstalldate)])
        with_date == [i \in 1..Len(dated) |->
                        [referencenumber |-> dated[i].referencenumber,
                         requesttype |-> dated[i].requesttype,
                         install_date |-> to_datetime(fillna(dated[i].aw_installdate,
                                                            dated[i].signalinstalldate))]]
        unique == drop_duplicates(with_date)
        merged == [i \in 1..Len(unique) |-> merge_coords(unique[i], drop_duplicates(cache))]
    IN  Filter(merged, [i \in 1..Len(merged) |->
                        notna(merged[i].latitude) /\ notna(merged[i].longitude)])

\* lines 815-835: the approved, non-APS studies with an install date and a
\* geocoded coordinate
select_installed(studies, cache) ==
    LET approved == Filter(studies, [i \in 1..Len(studies) |->
                        /\ _classify_outcome(studies[i].statusdescription) = "approved"
                        /\ studies[i].requesttype # "Accessible Pedestrian Signal"])
        dated == Filter(approved, [i \in 1..Len(approved) |->
                        notna(approved[i].aw_installdate) \/ notna(approved[i].signalinstalldate)])
        with_date == [i \in 1..Len(dated) |->
                        [referencenumber |-> dated[i].referencenumber,
                         requesttype |-> dated[i].requesttype,
                         install_date |-> to_datetime(fillna(dated[i].aw_installdate,
                                                            dated[i].signalinstalldate))]]
        unique == drop_duplicates(with_date)
        merged == [i \in 1..Len(unique) |-> merge_coords(unique[i], drop_duplicates(cache))]
    IN  Filter(merged, [i \in 1..Len(merged) |->
                        notna(merged[i].latitude) /\ notna(merged[i].longitude)])

\* cb5_crashes['crash_date'].max(), 2025-12-31 for an empty table
DATA_END(crash_tab) ==
    IF crash_tab = <<>> THEN DATA_END_DEFAULT
    ELSE LET k == CHOOSE i \in 1..Len(crash_tab) :
                      \A j \in 1..Len(crash_tab) : crash_tab[j].crash_date <= crash_tab[i].crash_date
         IN  crash_tab[k].crash_date

\* days / 30.44
months_of(days) == Rat(days * 100, 3044)

RatMin(a, b) == IF RatLt(b, a) THEN b ELSE a

\* min(months_before, months_after, 24)
window_months_of(install_dt, data_end) ==
    RatMin(RatMin(months_of(install_dt - DATA_START), months_of(data_end - install_dt)),
           Num(MAX_WINDOW_MONTHS))

\* The whole numbers of days d, -2300 <= d <= 730, for which the double
\* (d / 30.44) * 30.44 falls short of d in magnitude, so that int() of it is
\* one nearer to zero than d.
LossyDays ==
    {-2047, -2046, -2041, -2036, -2031, -2025, -2020, -2015, -2009, -2004, -1999,
     -1993, -1988, -1983, -1978, -1977, -1972, -1967, -1962, -1961, -1956, -1951,
     -1023, -1018, -1010, -1002, -994, -989, -986, -981, -978,
     -509, -505, -501, -497, -493, -489, 489, 493, 497, 501, 505, 509}

\* int(x): truncation towards zero
int_trunc(r) == IF r[1] >= 0 THEN r[1] \div r[2] ELSE -((-r[1]) \div r[2])

\* int(window_months * 30.44) in double arithmetic
window_days_of(window_months) ==
    LET exact == RatMul(window_months, Rat(3044, 100))
        t == int_trunc(exact)
    IN  IF exact[2] = 1 /\ exact[1] \in LossyDays
        THEN (IF t > 0 THEN t - 1 ELSE t + 1)
        ELSE t

\* round(x, 1): to the nearest tenth, a tie to the even tenth
round1(r) ==
    LET x == r[1] * 10
        q == x \div r[2]
        rem == x - q * r[2]
        n == IF 2 * rem < r[2] THEN q
             ELSE IF 2 * rem > r[2] THEN q + 1
             ELSE IF q % 2 = 0 THEN q ELSE q + 1
    IN  Rat(n, 10)

\* the percent change without the case before = 0, after > 0
pct_change_of_no_new_crashes_case(before_crashes, after_crashes) ==
    IF before_crashes > 0
    THEN RatMul(Rat(after_crashes - before_crashes, before_crashes), Num(100))
    ELSE Num(0)

\* lines 879-884
pct_change_of(before_crashes, after_crashes) ==
    IF before_crashes > 0
    THEN RatMul(Rat(after_crashes - before_crashes, before_crashes), Num(100))
    ELSE IF after_crashes > 0 THEN Num(100)
    ELSE Num(0)

\* the loop body with the install day included in the before window
before_after_locals_closed_before(row, crash_tab) ==
    LET lat == row.latitude
        lon == row.longitude
        install_dt == row.install_date[1]
        within_150m == [j \in 1..Len(crash_tab) |->
            _haversine_vectorized(lat, lon, crash_tab[j].latitude, crash_tab[j].longitude)
                <= PROXIMITY_RADIUS_M * 1000]
        window_months == window_months_of(install_dt, DATA_END(crash_tab))
        window_days == window_days_of(window_months)
        before_start == install_dt - window_days
        after_end == install_dt + window_days
        before_mask == [j \in 1..Len(crash_tab) |->
            /\ within_150m[j]
            /\ crash_tab[j].crash_date >= before_start
            /\ crash_tab[j].crash_date <= install_dt]
        after_mask == [j \in 1..Len(crash_tab) |->
            /\ within_150m[j]
            /\ crash_tab[j].crash_date >= install_dt
            /\ crash_tab[j].crash_date <= after_end]
        before_crashes == Count(before_mask)
        after_crashes == Count(after_mask)
    IN  [install_dt |-> install_dt,
         window_months |-> window_months,
         window_days |-> window_days,
         before_start |-> before_start,
         after_end |-> after_end,
         before_crashes |-> before_crashes,
         after_crashes |-> after_crashes,
         before_inj |-> masked_sum(crash_tab, before_mask, "number_of_persons_injured")[1],
         after_inj |-> masked_sum(crash_tab, after_mask, "number_of_persons_injured")[1],
         pct_change |-> pct_change_of(before_crashes, after_crashes)]

\* lines 852-884: the local variables of one loop iteration
before_after_locals(row, crash_tab) ==
    LET lat == row.latitude
        lon == row.longitude
        install_dt == row.install_date[1]
        within_150m == [j \in 1..Len(crash_tab) |->
            _haversine_vectorized(lat, lon, crash_tab[j].latitude, crash_tab[j].longitude)
                <= PROXIMITY_RADIUS_M * 1000]
        window_months == window_months_of(install_dt, DATA_END(crash_tab))
        window_days == window_days_of(window_months)
        before_start == install_dt - window_days
        after_end == install_dt + window_days
        before_mask == [j \in 1..Len(crash_tab) |->
            /\ within_150m[j]
            /\ crash_tab[j].crash_date >= before_start
            /\ crash_tab[j].crash_date < install_dt]
        after_mask == [j \in 1..Len(crash_tab) |->
            /\ within_150m[j]
            /\ crash_tab[j].crash_date >= install_dt
            /\ crash_tab[j].crash_date <= after_end]
        before_crashes == Count(before_mask)
        after_crashes == Count(after_mask)
    IN  [install_dt |-> install_dt,
         window_months |-> window_months,
         window_days |-> window_days,
         before_start |-> before_start,
         after_end |-> after_end,
         before_crashes |-> before_crashes,
         after_crashes |-> after_crashes,
         before_inj |-> masked_sum(crash_tab, before_mask, "number_of_persons_injured")[1],
         after_inj |-> masked_sum(crash_tab, after_mask, "number_of_persons_injured")[1],
         pct_change |-> pct_change_of(before_crashes, after_crashes)]

\* lines 886-902: the record appended to results
before_after_result(row, loc) ==
    [referencenumber |-> row.referencenumber,
     requesttype |-> row.requesttype,
     install_date |-> row.install_date,
     window_months |-> round1(loc.window_months),
     before_crashes |-> loc.before_crashes,
     after_crashes |-> loc.after_crashes,
     crash_change |-> loc.after_crashes - loc.before_crashes,
     pct_change |-> round1(loc.pct_change),
     before_injuries |-> loc.before_inj,
     after_injuries |-> loc.after_inj,
     latitude |-> row.latitude,
     longitude |-> row.longitude]

StudyRow(ref, st, rt, aw, sig) ==
    [referencenumber |-> ref, statusdescription |-> st, requesttype |-> rt,
     aw_installdate |-> aw, signalinstalldate |-> sig]

\* candidate rows of data_cb5_signal_studies.csv: installed on day 800, on day
\* 489, before the data starts, with a text that is no date; not approved; an
\* APS request; approved without an install date
StudyCands ==
    { StudyRow(1, <<"A", "p", "p", "r", "o", "v", "e", "d">>, "Traffic Signal", <<800, 1>>, NaN),
      StudyRow(2, <<"A", "p", "p", "r", "o", "v", "a", "l", " ", "R", "e", "c", "o", "m", "m", "e", "n", "d", "e", "d">>, "Traffic Signal", NaN, <<489, 1>>),
      StudyRow(1, <<"A", "p", "p", "r", "o", "v", "e", "d">>, "Left Turn Arrow", <<-10, 1>>, <<800, 1>>),
      StudyRow(3, <<"A", "p", "p", "r", "o", "v", "e", "d">>, "Traffic Signal", <<0, 0>>, NaN),
      StudyRow(2, <<"E", "n", "g", "i", "n", "e", "e", "r", "i", "n", "g", " ", "S", "t", "u", "d", "y", " ", "C", "o", "m", "p", "l", "e", "t", "e", "d", " ", "-", " ", "D", "e", "n", "i", "a", "l">>, "Traffic Signal", <<800, 1>>, NaN),
      StudyRow(3, <<"A", "p", "p", "r", "o", "v", "e", "d">>, "Accessible Pedestrian Signal", <<800, 1>>, NaN),
      StudyRow(3, <<"A", "p", "p", "r", "o", "v", "e", "d">>, "Traffic Signal", NaN, NaN) }

StudyTables == SeqsUpTo(StudyCands, MaxStudies)

CacheRow(ref, lat, lon) == [referencenumber |-> ref, latitude |-> lat, longitude |-> lon]

\* candidate geocode caches: every request at grid point (0, 0); request 1
\* unresolved, request 2 twice, request 3 not in the file
CacheTables ==
    { << CacheRow(1, Num(0), Num(0)), CacheRow(2, Num(0), Num(0)), CacheRow(3, Num(0), Num(0)) >>,
      << CacheRow(1, NaN, NaN), CacheRow(2, Num(0), Num(0)), CacheRow(2, Num(1), Num(1)) >> }

DatedCrash(lat, lon, day, inj) ==
    [latitude |-> Num(lat), longitude |-> Num(lon), crash_date |-> day,
     number_of_persons_injured |-> Num(inj)]

\* candidate crashes; the injury numbers are distinct powers of two
DatedCrashCands ==
    << DatedCrash(0, 0, 70, 1),
       DatedCrash(0, 0, 69, 2),
       DatedCrash(3, 0, 799, 4),
       DatedCrash(0, 0, 800, 8),
       DatedCrash(0, 0, 1530, 16),
       DatedCrash(0, 0, 1531, 32),
       DatedCrash(4, 0, 799, 64),
       DatedCrash(0, 0, 0, 128),
       DatedCrash(0, 0, 2000, 256) >>

\* five crashes in the two years before day 800 and none near after it; none
\* before and three after; three before and four after
FiveBefore ==
    [k \in 1..6 |-> IF k <= 5 THEN DatedCrash(0, 0, 789 + k, 1) ELSE DatedCrash(4, 0, 2000, 1)]

ThreeAfter == [k \in 1..3 |-> DatedCrash(0, 0, 800 + k, 1)]

ThreeBeforeFourAfter == [k \in 1..7 |-> DatedCrash(0, 0, 796 + k, 1)]

DatedCrashTables ==
    {Filter(DatedCrashCands, [i \in 1..Len(DatedCrashCands) |-> i \in pick]) :
        pick \in {s \in SUBSET (1..Len(DatedCrashCands)) : Cardinality(s) <= MaxDatedCrashes}}
    \cup {FiveBefore, ThreeAfter, ThreeBeforeFourAfter}

InitBA ==
    /\ pc = "before_after"
    /\ poly = 1
    /\ srts = <<>>
    /\ ba_studies \in StudyTables
    /\ ba_cache \in CacheTables
    /\ ba_crashes \in DatedCrashTables
    /\ installed = <<>>
    /\ ba_local = <<>>
    /\ ba_results = <<>>
    /\ IdleFilter
    /\ IdleClassify
    /\ IdleGeo
    /\ IdleProx
    /\ IdleMW
    /\ IdleNet
    /\ IdleLate

\* lines 815-848: read the studies and the cache, select the installed locations
BeforeAfterSelect ==
    /\ pc = "before_after"
    /\ installed' = <<select_installed(ba_studies, ba_cache)>>
    /\ pc' = "ba_loop"
    /\ UNCHANGED <<poly, srts, filterVars, classVars, geoVars, proxVars, mwVars, netVars, lateVars,
                   ba_studies, ba_cache, ba_crashes, ba_local, ba_results>>

\* lines 851-902: one iteration of the loop over the installed locations
BeforeAfterRow ==
    /\ pc = "ba_loop"
    /\ Len(ba_results) < Len(installed[1])
    /\ LET row == installed[1][Len(ba_results) + 1]
       IN  /\ row.install_date # NaT
           /\ ba_local' = before_after_locals(row, ba_crashes)
           /\ ba_results' = Append(ba_results, before_after_result(row, ba_local'))
    /\ UNCHANGED <<pc, poly, srts, filterVars, classVars, geoVars, proxVars, mwVars, netVars, lateVars,
                   ba_studies, ba_cache, ba_crashes, installed>>

\* lines 859-862 for an install date that did not parse: the month counts are
\* NaN and int(NaN) raises ValueError
BeforeAfterRowRaises ==
    /\ pc = "ba_loop"
    /\ Len(ba_results) < Len(installed[1])
    /\ installed[1][Len(ba_results) + 1].install_date = NaT
    /\ pc' = "ba_raised"
    /\ UNCHANGED <<poly, srts, filterVars, classVars, geoVars, proxVars, baVars, mwVars, netVars, lateVars>>

\* lines 904-913: the result table; with no installed location the table has
\* no columns and rdf['crash_change'] raises KeyError
BeforeAfterReturn ==
    /\ pc = "ba_loop"
    /\ Len(ba_results) = Len(installed[1])
    /\ pc' = IF ba_results = <<>> THEN "ba_raised" ELSE "ba_returned"
    /\ UNCHANGED <<poly, srts, filterVars, classVars, geoVars, proxVars, baVars, mwVars, netVars, lateVars>>

NextBA ==
    \/ BeforeAfterSelect
    \/ BeforeAfterRow
    \/ BeforeAfterRowRaises
    \/ BeforeAfterReturn

SpecBA == InitBA /\ [][NextBA]_vars

-----------------------------------------------------------------------------
(* Before-after claims *)

\* the installed location of the last loop iteration
LastInstalled == installed[1][Len(ba_results)]

PercentChangeAsClaimed(b, a, p) ==
    /\ (b > 0) => (p[1] * b = (a - b) * 100 * p[2])
    /\ (b = 0 /\ a > 0) => (p = Num(100))
    /\ (b = 0 /\ a = 0) => (p = Num(0))
    /\ (b = 0 /\ a = 3) => (p = Num(100))
    /\ (b = 5 /\ a = 0) => (p = Num(-100))

\* C12: the percent change of an installed location is
\* (after - before) / before * 100 when before > 0, 100 when before = 0 and
\* after > 0, and 0 when both are 0 (0 and 3 give 100, 0 and 0 give 0, 5 and 0
\* give -100); it is computed for every pair of counts, without a division by
\* zero, from the counts the result record reports.
C12_PercentChange ==
    (ba_local # <<>>) =>
        /\ PercentChangeAsClaimed(ba_local.before_crashes, ba_local.after_crashes,
                                  ba_local.pct_change)
        /\ ba_results[Len(ba_results)].before_crashes = ba_local.before_crashes
        /\ ba_results[Len(ba_results)].after_crashes = ba_local.after_crashes
        /\ ba_results[Len(ba_results)].pct_change = round1(ba_local.pct_change)

\* five crashes before, none after: -100
C12_Witness ==
    /\ ba_local # <<>>
    /\ ba_local.before_crashes = 5
    /\ ba_local.after_crashes = 0
    /\ ba_local.pct_change = Num(-100)
    /\ ba_results[Len(ba_results)].pct_change = Num(-100)

\* none before, three after: 100
C12_WitnessNoneBefore ==
    /\ ba_local # <<>>
    /\ ba_local.before_crashes = 0
    /\ ba_local.after_crashes = 3
    /\ ba_local.pct_change = Num(100)

\* no crash in either window: 0
C12_WitnessNoCrash ==
    /\ ba_local # <<>>
    /\ ba_local.before_crashes = 0
    /\ ba_local.after_crashes = 0
    /\ ba_local.pct_change = Num(0)

\* the crashes within the radius of an installed location
NearCrashes(loc, tab) == WithinRadius(loc, tab, PROXIMITY_RADIUS_M)

\* the crashes dated from day lo to day hi, hi included or not
DatedIn(S, tab, lo, hi, closed) ==
    {j \in S : /\ lo <= tab[j].crash_date
               /\ IF closed THEN tab[j].crash_date <= hi ELSE tab[j].crash_date < hi}

DistinctWeights(tab) ==
    \A i, j \in 1..Len(tab) :
        (i # j) => (tab[i].number_of_persons_injured # tab[j].number_of_persons_injured)

WindowsAsClaimed(loc, tab, install, window, l) ==
    LET near == NearCrashes(loc, tab)
        before == DatedIn(near, tab, install - window, install, FALSE)
        after == DatedIn(near, tab, install, install + window, TRUE)
    IN  /\ l.before_crashes = Cardinality(before)
        /\ l.after_crashes = Cardinality(after)
        /\ l.before_inj = SumOver(before, tab, "number_of_persons_injured")
        /\ l.after_inj = SumOver(after, tab, "number_of_persons_injured")
        /\ l.before_crashes + l.after_crashes <= Cardinality(near)
        /\ DistinctWeights(tab) =>
              \A j \in 1..Len(tab) :
                 /\ ~(SumIncludes(Num(l.before_inj), tab[j]) /\ SumIncludes(Num(l.after_inj), tab[j]))
                 /\ (j \in near /\ tab[j].crash_date = install)
                        => (SumIncludes(Num(l.after_inj), tab[j])
                            /\ ~SumIncludes(Num(l.before_inj), tab[j]))
                 /\ (j \notin near)
                        => (~SumIncludes(Num(l.after_inj), tab[j])
                            /\ ~SumIncludes(Num(l.before_inj), tab[j]))

\* C13: a crash within the radius of an installed location is counted as
\* before exactly when its date is in [install - window, install) and as after
\* exactly when its date is in [install, install + window]; no crash is in
\* both, a crash on the install date is after, and a crash outside the radius
\* or outside both windows is in neither.
C13_BeforeAfterWindows ==
    (ba_local # <<>>) =>
        WindowsAsClaimed(LastInstalled, ba_crashes, ba_local.install_dt,
                         ba_local.window_days, ba_local)

\* a 730-day window around day 800: the crash on day 70 is before, the crash
\* on day 1531 is in neither window
C13_Witness ==
    /\ ba_local # <<>>
    /\ ba_local.install_dt = 800
    /\ ba_local.window_days = 730
    /\ \E i, j \in 1..Len(ba_crashes) :
          /\ ba_crashes[i].crash_date = 70
          /\ ba_crashes[j].crash_date = 1531
    /\ ba_local.before_crashes = 1
    /\ ba_local.after_crashes = 0

\* a crash on the install day is after
C13_WitnessInstallDay ==
    /\ ba_local # <<>>
    /\ ba_local.install_dt = 800
    /\ \E i \in 1..Len(ba_crashes) : ba_crashes[i].crash_date = 800
    /\ Len(ba_crashes) = 1
    /\ ba_local.before_crashes = 0
    /\ ba_local.after_crashes = 1

\* min(days from the data start to the install date, days from the install
\* date to the data end, the whole days in 24 months)
ClaimedWindowDays(install, data_end) ==
    LET cap == int_trunc(RatMul(Num(MAX_WINDOW_MONTHS), Rat(3044, 100)))
        d == IF install - DATA_START < data_end - install
             THEN install - DATA_START ELSE data_end - install
    IN  IF d < cap THEN d ELSE cap

\* C14: the window of an installed location is min(time from the data start
\* to the install date, time from the install date to the data end, 24
\* months), the same before and after the install date and never more than 24
\* months; the before window does not start before the data start and the
\* after window does not end after the data end.
C14_WindowIsMinOfThree ==
    (ba_local # <<>>) =>
        LET w == ClaimedWindowDays(ba_local.install_dt, DATA_END(ba_crashes))
        IN  /\ ba_local.before_start = ba_local.install_dt - w
            /\ ba_local.after_end = ba_local.install_dt + w
            /\ ~RatLt(Num(MAX_WINDOW_MONTHS), ba_local.window_months)
            /\ ba_local.before_start >= DATA_START
            /\ ba_local.after_end <= DATA_END(ba_crashes)

\* what the code does keep: the two windows have the same length, the length
\* in months is the minimum of the three and at most 24, the length in days
\* is the claimed one or one day nearer to zero, and for an install date inside
\* the data period the windows stay inside the data period
C14_WindowWithinOneDay ==
    (ba_local # <<>>) =>
        LET w == ClaimedWindowDays(ba_local.install_dt, DATA_END(ba_crashes))
            used == ba_local.install_dt - ba_local.before_start
        IN  /\ ba_local.after_end - ba_local.install_dt = used
            /\ ~RatLt(Num(MAX_WINDOW_MONTHS), ba_local.window_months)
            /\ used \in {w, IF w > 0 THEN w - 1 ELSE w + 1}
            /\ (ba_local.install_dt >= DATA_START /\ ba_local.install_dt <= DATA_END(ba_crashes))
                  => /\ ba_local.before_start >= DATA_START
                     /\ ba_local.after_end <= DATA_END(ba_crashes)

-----------------------------------------------------------------------------
(* Rank-sum test: _mann_whitney_u *)

\* x[~np.isnan(x)]
dropna(xs) == Filter(xs, [i \in 1..Len(xs) |-> notna(xs[i])])

\* np.argsort(combined): the indices of combined in ascending order of value,
\* equal values in index order (arrays this short are insertion-sorted)
RECURSIVE argsort_insert(_, _, _)
argsort_insert(order, combined, k) ==
    IF order = <<>> THEN <<k>>
    ELSE IF RatLt(combined[k], combined[Head(order)])
         THEN <<k>> \o order
         ELSE <<Head(order)>> \o argsort_insert(Tail(order), combined, k)

RECURSIVE argsort_upto(_, _)
argsort_upto(combined, n) ==
    IF n = 0 THEN <<>>
    ELSE argsort_insert(argsort_upto(combined, n - 1), combined, n)

argsort(combined) == argsort_upto(combined, Len(combined))

\* the ranks without the tie handling: ranks[order[p]] = p
ranks_without_tie_handling(combined) ==
    LET order == argsort(combined)
        n == Len(combined)
    IN  [k \in 1..n |-> Num(CHOOSE p \in 1..n : order[p] = k)]

\* the ranks with every run of equal values given the first rank of the run
ranks_lowest_of_tied(combined) ==
    LET order == argsort(combined)
        n == Len(combined)
        run(p) == {q \in 1..n : combined[order[q]] = combined[order[p]]}
        rank_at(p) == Num(CHOOSE q \in run(p) : \A r \in run(p) : q <= r)
    IN  [k \in 1..n |-> rank_at(CHOOSE p \in 1..n : order[p] = k)]

\* lines 685-701: ranks[order[p]] = p, then every run of equal values in the
\* sorted order gets the mean of the ranks of the run
tie_averaged_ranks(combined) ==
    LET order == argsort(combined)
        n == Len(combined)
        run(p) == {q \in 1..n : combined[order[q]] = combined[order[p]]}
        RECURSIVE sum_set(_)
        sum_set(S) == IF S = {} THEN 0
                      ELSE LET q == CHOOSE q \in S : TRUE IN q + sum_set(S \ {q})
        rank_at(p) == IF Cardinality(run(p)) > 1
                      THEN Rat(sum_set(run(p)), Cardinality(run(p)))
                      ELSE Num(p)
    IN  [k \in 1..n |-> rank_at(CHOOSE p \in 1..n : order[p] = k)]

RECURSIVE rat_sum_seq(_)
rat_sum_seq(s) == IF s = <<>> THEN Num(0) ELSE RatAdd(Head(s), rat_sum_seq(Tail(s)))

\* sigma * sigma = n1 * n2 * (n1 + n2 + 1) / 12
sigma_squared(n1, n2) == Rat(n1 * n2 * (n1 + n2 + 1), 12)

\* _mann_whitney_u without the return for an empty sample
_mann_whitney_u_no_empty_return(x_in, y_in) ==
    LET x == dropna(x_in)
        y == dropna(y_in)
        n1 == Len(x)
        n2 == Len(y)
        combined == x \o y
        ranks == tie_averaged_ranks(combined)
        R1 == rat_sum_seq(SubSeq(ranks, 1, n1))
        U1 == RatSub(R1, Rat(n1 * (n1 + 1), 2))
        mu == Rat(n1 * n2, 2)
    IN  IF sigma_squared(n1, n2) = Num(0)
        THEN [U |-> U1, p |-> "1.0", z2 |-> NaN, ranks |-> ranks]
        ELSE [U |-> U1, p |-> "normal",
              z2 |-> RatDiv(RatMul(RatSub(U1, mu), RatSub(U1, mu)), sigma_squared(n1, n2)),
              ranks |-> ranks]

\* _mann_whitney_u(x, y).  The p-value is a value of exp and sqrt; the model
\* keeps which return statement produced it: "nan", "1.0", or "normal" for
\* min(p_two, 1.0) together with z * z.
_mann_whitney_u(x_in, y_in) ==
    LET x == dropna(x_in)
        y == dropna(y_in)
        n1 == Len(x)
        n2 == Len(y)
        combined == x \o y
        ranks == tie_averaged_ranks(combined)
        R1 == rat_sum_seq(SubSeq(ranks, 1, n1))
        U1 == RatSub(R1, Rat(n1 * (n1 + 1), 2))
        mu == Rat(n1 * n2, 2)
    IN  IF n1 = 0 \/ n2 = 0
        THEN [U |-> NaN, p |-> "nan", z2 |-> NaN, ranks |-> <<>>]
        ELSE IF sigma_squared(n1, n2) = Num(0)
        THEN [U |-> U1, p |-> "1.0", z2 |-> NaN, ranks |-> ranks]
        ELSE [U |-> U1, p |-> "normal",
              z2 |-> RatDiv(RatMul(RatSub(U1, mu), RatSub(U1, mu)), sigma_squared(n1, n2)),
              ranks |-> ranks]

SampleValues == {NaN, Num(1), Num(2), Num(3)}

\* x = [1, 2, 2, 3], y = [2, 2, 4, 5]
ReferenceX == <<Num(1), Num(2), Num(2), Num(3)>>

ReferenceY == <<Num(2), Num(2), Num(4), Num(5)>>

InitMW ==
    /\ pc = "mann_whitney"
    /\ poly = 1
    /\ srts = <<>>
    /\ \/ /\ mw_x \in SeqsUpTo(SampleValues, MaxSample)
          /\ mw_y \in SeqsUpTo(SampleValues, MaxSample)
       \/ /\ mw_x = ReferenceX
          /\ mw_y = ReferenceY
    /\ mw_out = <<>>
    /\ IdleFilter
    /\ IdleClassify
    /\ IdleGeo
    /\ IdleProx
    /\ IdleBA
    /\ IdleNet
    /\ IdleLate

\* a call _mann_whitney_u(mw_x, mw_y)
MannWhitneyU ==
    /\ pc = "mann_whitney"
    /\ mw_out' = <<_mann_whitney_u(mw_x, mw_y)>>
    /\ pc' = "mw_returned"
    /\ UNCHANGED <<poly, srts, filterVars, classVars, geoVars, proxVars, baVars, netVars, lateVars, mw_x, mw_y>>

NextMW == MannWhitneyU

SpecMW == InitMW /\ [][NextMW]_vars

-----------------------------------------------------------------------------
(* Rank-sum claims *)

\* the mid-rank of value v among the values vs: the mean of the positions the
\* values equal to v occupy when vs is put in ascending order
MidRank(v, vs) ==
    LET less == Cardinality({k \in 1..Len(vs) : RatLt(vs[k], v)})
        same == Cardinality({k \in 1..Len(vs) : vs[k] = v})
    IN  Rat(2 * less + same + 1, 2)

\* the U statistic of sample xs against ys counted pair by pair: one for each
\* pair with x > y and a half for each pair with x = y
ReferenceU(xs, ys) ==
    LET wins == Cardinality({pr \in (1..Len(xs)) \X (1..Len(ys)) : RatLt(ys[pr[2]], xs[pr[1]])})
        ties == Cardinality({pr \in (1..Len(xs)) \X (1..Len(ys)) : ys[pr[2]] = xs[pr[1]]})
    IN  Rat(2 * wins + ties, 2)

RanksAndUAsClaimed(xs, ys, out) ==
    LET combined == xs \o ys
    IN  /\ Len(out.ranks) = Len(combined)
        /\ \A k \in 1..Len(combined) : out.ranks[k] = MidRank(combined[k], combined)
        /\ \A k, l \in 1..Len(combined) :
              (combined[k] = combined[l]) => (out.ranks[k] = out.ranks[l])
        /\ out.U = RatSub(rat_sum_seq([k \in 1..Len(xs) |-> MidRank(xs[k], combined)]),
                          Rat(Len(xs) * (Len(xs) + 1), 2))
        /\ out.U = ReferenceU(xs, ys)

\* C15: all values of the two samples are ranked together in ascending order,
\* equal values get the average of the positions they occupy, whichever sample
\* they are in, and U1 is the rank sum of sample 1 minus n1(n1+1)/2; for
\* x = [1,2,2,3], y = [2,2,4,5] every 2 has rank 3.5 and U1 is 4, the U of a
\* pair-by-pair count.
C15_TieAveragedRanksAndU ==
    (pc = "mw_returned" /\ mw_out[1].p # "nan") =>
        /\ RanksAndUAsClaimed(dropna(mw_x), dropna(mw_y), mw_out[1])
        /\ (mw_x = ReferenceX /\ mw_y = ReferenceY) =>
              /\ mw_out[1].U = Num(4)
              /\ \A k \in 1..8 :
                    ((mw_x \o mw_y)[k] = Num(2)) => (mw_out[1].ranks[k] = Rat(7, 2))

\* the reference samples have been ranked: four values 2 at rank 3.5, U1 = 4
C15_Witness ==
    /\ pc = "mw_returned"
    /\ mw_x = ReferenceX
    /\ mw_y = ReferenceY
    /\ mw_out[1].ranks = <<Num(1), Rat(7, 2), Rat(7, 2), Num(6), Rat(7, 2), Rat(7, 2), Num(7), Num(8)>>
    /\ mw_out[1].U = Num(4)

\* C16: if either sample is empty once the missing values are dropped the
\* result is (NaN, NaN); otherwise the call returns U1 with a p-value, which
\* is 1.0 if the standard deviation of the normal approximation is 0.
C16_DegenerateSamples ==
    (pc = "mw_returned") =>
        LET n1 == Len(dropna(mw_x))
            n2 == Len(dropna(mw_y))
        IN  /\ (n1 = 0 \/ n2 = 0) => (isna(mw_out[1].U) /\ mw_out[1].p = "nan")
            /\ (n1 > 0 /\ n2 > 0) =>
                  /\ mw_out[1].U = ReferenceU(dropna(mw_x), dropna(mw_y))
                  /\ mw_out[1].p \in {"1.0", "normal"}
                  /\ (n1 * n2 * (n1 + n2 + 1) = 0) => (mw_out[1].p = "1.0")

\* a first sample of missing values only against a non-empty second sample
C16_Witness ==
    /\ pc = "mw_returned"
    /\ mw_x # <<>>
    /\ dropna(mw_x) = <<>>
    /\ dropna(mw_y) # <<>>
    /\ isna(mw_out[1].U)
    /\ mw_out[1].p = "nan"

\* with two non-empty samples the standard deviation is positive: the return
\* of (U1, 1.0) is never taken, and samples of equal values go through the
\* normal approximation with z = 0
C16_SigmaNeverZero ==
    (pc = "mw_returned" /\ mw_out[1].p # "nan") =>
        /\ mw_out[1].p = "normal"
        /\ (\A k \in 1..Len(mw_x \o mw_y) : (mw_x \o mw_y)[k] = Num(2)) => (mw_out[1].z2 = Num(0))

-----------------------------------------------------------------------------
(* The boundary file: _load_cb5_boundary, generate_maps.py lines 762-784 and
   generate_charts.py lines 71-90 *)

\* line 776: the GEOCODE of Queens community district 5
BOUNDARY_GEOCODE == 405

\* json.dump and json.load: the file holds the text of the object; the objects
\* here come from resp.json(), and their text reads back as the same object
json_dump(obj) == [json_text_of |-> obj]

json_load(text) == text.json_text_of

\* a feature of the community-district collection: properties.GEOCODE is
\* <<code>>, or <<>> for a feature without the property
Feature(code, geometry) == [GEOCODE |-> code, geometry |-> geometry]

FeatureCollection(features) == [type |-> "FeatureCollection", features |-> features]

\* lines 775-776: the positions of the features with GEOCODE == 405
geocode_matches(features) ==
    {k \in 1..Len(features) : features[k].GEOCODE = <<BOUNDARY_GEOCODE>>}

\* _load_cb5_boundary without the extraction: the fetched collection is saved
\* and returned whole
_load_cb5_boundary_whole_collection(file, resp) ==
    IF file # <<>>
    THEN [outcome |-> "returned", value |-> <<json_load(file[1])>>,
          fetched |-> FALSE, wrote |-> FALSE, file |-> file]
    ELSE IF ~resp.ok
    THEN [outcome |-> "RequestException", value |-> <<>>,
          fetched |-> TRUE, wrote |-> FALSE, file |-> file]
    ELSE IF geocode_matches(resp.features) = {}
    THEN [outcome |-> "ValueError", value |-> <<>>,
          fetched |-> TRUE, wrote |-> FALSE, file |-> file]
    ELSE [outcome |-> "returned", value |-> <<FeatureCollection(resp.features)>>,
          fetched |-> TRUE, wrote |-> TRUE,
          file |-> <<json_dump(FeatureCollection(resp.features))>>]

\* _load_cb5_boundary with an empty collection saved and returned when no
\* feature has the code
_load_cb5_boundary_empty_when_missing(file, resp) ==
    IF file # <<>>
    THEN [outcome |-> "returned", value |-> <<json_load(file[1])>>,
          fetched |-> FALSE, wrote |-> FALSE, file |-> file]
    ELSE IF ~resp.ok
    THEN [outcome |-> "RequestException", value |-> <<>>,
          fetched |-> TRUE, wrote |-> FALSE, file |-> file]
    ELSE LET hits == geocode_matches(resp.features)
             first == IF hits = {} THEN <<>>
                      ELSE <<resp.features[CHOOSE k \in hits : \A l \in hits : k <= l]>>
             cb5_geojson == FeatureCollection(first)
         IN  [outcome |-> "returned", value |-> <<cb5_geojson>>,
              fetched |-> TRUE, wrote |-> TRUE, file |-> <<json_dump(cb5_geojson)>>]

\* generate_maps._load_cb5_boundary() with the file at CB5_BOUNDARY_PATH
\* (<<>> if there is none) and what requests.get would answer: resp.ok is
\* FALSE if requests.get or raise_for_status raises.
\*   lines 764-766: the file exists: return json.load of it
\*   lines 771-773: fetch; an exception of requests leaves the function
\*   lines 776-782: the first feature with GEOCODE 405 is wrapped, written, returned
\*   line 784: ValueError if the loop ends
_load_cb5_boundary(file, resp) ==
    IF file # <<>>
    THEN [outcome |-> "returned", value |-> <<json_load(file[1])>>,
          fetched |-> FALSE, wrote |-> FALSE, file |-> file]
    ELSE IF ~resp.ok
    THEN [outcome |-> "RequestException", value |-> <<>>,
          fetched |-> TRUE, wrote |-> FALSE, file |-> file]
    ELSE IF geocode_matches(resp.features) = {}
    THEN [outcome |-> "ValueError", value |-> <<>>,
          fetched |-> TRUE, wrote |-> FALSE, file |-> file]
    ELSE LET hits == geocode_matches(resp.features)
             feature == resp.features[CHOOSE k \in hits : \A l \in hits : k <= l]
             cb5_geojson == FeatureCollection(<<feature>>)
         IN  [outcome |-> "returned", value |-> <<cb5_geojson>>,
              fetched |-> TRUE, wrote |-> TRUE, file |-> <<json_dump(cb5_geojson)>>]

\* generate_charts._load_cb5_boundary(), lines 71-90: the same statements
charts_load_cb5_boundary(file, resp) ==
    IF file # <<>>
    THEN [outcome |-> "returned", value |-> <<json_load(file[1])>>,
          fetched |-> FALSE, wrote |-> FALSE, file |-> file]
    ELSE IF ~resp.ok
    THEN [outcome |-> "RequestException", value |-> <<>>,
          fetched |-> TRUE, wrote |-> FALSE, file |-> file]
    ELSE IF geocode_matches(resp.features) = {}
    THEN [outcome |-> "ValueError", value |-> <<>>,
          fetched |-> TRUE, wrote |-> FALSE, file |-> file]
    ELSE LET hits == geocode_matches(resp.features)
             feature == resp.features[CHOOSE k \in hits : \A l \in hits : k <= l]
             cb5_geojson == FeatureCollection(<<feature>>)
         IN  [outcome |-> "returned", value |-> <<cb5_geojson>>,
              fetched |-> TRUE, wrote |-> TRUE, file |-> <<json_dump(cb5_geojson)>>]

\* the features a fetched collection is made of: district 405 with one of two
\* outlines, another district, a feature without a GEOCODE
RemoteFeatures ==
    {Feature(<<BOUNDARY_GEOCODE>>, "outline_a"), Feature(<<BOUNDARY_GEOCODE>>, "outline_b"),
     Feature(<<BOUNDARY_GEOCODE - 1>>, "outline_c"), Feature(<<>>, "outline_d")}

\* what a request for CB5_BOUNDARY_URL can answer: a collection, or a failure
Responses ==
    {[ok |-> TRUE, features |-> fs] : fs \in SeqsUpTo(RemoteFeatures, MaxFeatures)}
        \cup {[ok |-> FALSE, features |-> <<>>]}

\* the boundary files an earlier run can have left
SavedBoundaries ==
    {<<json_dump(FeatureCollection(<<f>>))>> :
        f \in {g \in RemoteFeatures : g.GEOCODE = <<BOUNDARY_GEOCODE>>}}

InitBoundary ==
    /\ pc = "boundary"
    /\ poly = 1
    /\ srts = <<>>
    /\ boundary_file \in {<<>>} \cup SavedBoundaries
    /\ boundary_calls = <<>>
    /\ IdleFilter
    /\ IdleClassify
    /\ IdleGeo
    /\ IdleProx
    /\ IdleBA
    /\ IdleMW
    /\ IdleFd
    /\ IdleLate

\* the record of a finished call: who called, the file before, what was
\* asked of the network and answered, and what _load_cb5_boundary did
CallRecord(copy, file, resp, r) ==
    [copy |-> copy, file_before |-> file,
     response |-> IF r.fetched THEN <<resp>> ELSE <<>>,
     fetched |-> r.fetched, wrote |-> r.wrote,
     outcome |-> r.outcome, value |-> r.value, file_after |-> r.file]

\* a call of generate_maps._load_cb5_boundary (from _load_cb5_polygon or
\* _add_cb5_boundary); a raised exception ends that run, the next call is
\* one of a later run
LoadBoundaryMaps ==
    /\ pc = "boundary"
    /\ Len(boundary_calls) < MaxCalls
    /\ \E resp \in Responses :
          LET r == _load_cb5_boundary(boundary_file, resp)
          IN  /\ boundary_file' = r.file
              /\ boundary_calls' = Append(boundary_calls, CallRecord("maps", boundary_file, resp, r))
    /\ UNCHANGED <<pc, poly, srts, filterVars, classVars, geoVars, proxVars, baVars, mwVars, lateVars, fdVars>>

\* a call of generate_charts._load_cb5_boundary
LoadBoundaryCharts ==
    /\ pc = "boundary"
    /\ Len(boundary_calls) < MaxCalls
    /\ \E resp \in Responses :
          LET r == charts_load_cb5_boundary(boundary_file, resp)
          IN  /\ boundary_file' = r.file
              /\ boundary_calls' = Append(boundary_calls, CallRecord("charts", boundary_file, resp, r))
    /\ UNCHANGED <<pc, poly, srts, filterVars, classVars, geoVars, proxVars, baVars, mwVars, lateVars, fdVars>>

NextBoundary == LoadBoundaryMaps \/ LoadBoundaryCharts

SpecBoundary == InitBoundary /\ [][NextBoundary]_vars

-----------------------------------------------------------------------------
(* Boundary file claims *)

HasDistrict(resp) ==
    \E k \in 1..Len(resp.features) : resp.features[k].GEOCODE = <<BOUNDARY_GEOCODE>>

\* a FeatureCollection of exactly one feature, a feature of the fetched
\* collection with district code 405
OnlyTheDistrictOf(geojson, resp) ==
    /\ geojson.type = "FeatureCollection"
    /\ Len(geojson.features) = 1
    /\ geojson.features[1].GEOCODE = <<BOUNDARY_GEOCODE>>
    /\ \E k \in 1..Len(resp.features) : resp.features[k] = geojson.features[1]

\* call i found no file, fetched a collection that has the district
FetchedTheDistrict(i) ==
    /\ boundary_calls[i].file_before = <<>>
    /\ boundary_calls[i].fetched
    /\ boundary_calls[i].response[1].ok
    /\ HasDistrict(boundary_calls[i].response[1])

\* call i found no file, fetched a collection that lacks the district
FetchedWithoutDistrict(i) ==
    /\ boundary_calls[i].file_before = <<>>
    /\ boundary_calls[i].fetched
    /\ boundary_calls[i].response[1].ok
    /\ ~HasDistrict(boundary_calls[i].response[1])

\* C17: with the boundary file present a call returns the content of the file,
\* fetches nothing and writes nothing; with the file absent it fetches, and if
\* the collection has the feature with district code 405 it writes a
\* FeatureCollection of exactly that feature to the file and returns it, and
\* every later call returns the same boundary without fetching.
C17_BoundaryFromCacheOrFetchedOnce ==
    \A i \in 1..Len(boundary_calls) :
        LET c == boundary_calls[i]
        IN  /\ (c.file_before # <<>>) =>
                  /\ c.outcome = "returned"
                  /\ c.value = <<json_load(c.file_before[1])>>
                  /\ ~c.fetched
                  /\ ~c.wrote
                  /\ c.file_after = c.file_before
            /\ (c.file_before = <<>>) => c.fetched
            /\ FetchedTheDistrict(i) =>
                  /\ c.outcome = "returned"
                  /\ c.wrote
                  /\ OnlyTheDistrictOf(c.value[1], c.response[1])
                  /\ c.file_after = <<json_dump(c.value[1])>>
                  /\ \A j \in (i + 1)..Len(boundary_calls) :
                        /\ ~boundary_calls[j].fetched
                        /\ boundary_calls[j].outcome = "returned"
                        /\ boundary_calls[j].value = c.value
            /\ (i < Len(boundary_calls)) => (boundary_calls[i + 1].file_before = c.file_after)
            /\ (i = Len(boundary_calls)) => (boundary_file = c.file_after)

\* a first call that fetched a collection of two features and saved the
\* district, then a call of the other module served from the file
C17_Witness ==
    /\ Len(boundary_calls) = 2
    /\ FetchedTheDistrict(1)
    /\ Len(boundary_calls[1].response[1].features) = 2
    /\ ~HasDistrict([ok |-> TRUE, features |-> Tail(boundary_calls[1].response[1].features)])
    /\ boundary_calls[1].copy # boundary_calls[2].copy
    /\ ~boundary_calls[2].fetched
    /\ boundary_calls[2].value = boundary_calls[1].value
    /\ boundary_file # <<>>

\* C18: with the boundary file absent and no feature of the fetched collection
\* having district code 405 the call fails with the data-not-found error,
\* returns nothing and leaves no file, and the next call fetches again.
C18_MissingDistrictRaisesAndLeavesNoFile ==
    \A i \in 1..Len(boundary_calls) :
        FetchedWithoutDistrict(i) =>
            /\ boundary_calls[i].outcome = "ValueError"
            /\ boundary_calls[i].value = <<>>
            /\ ~boundary_calls[i].wrote
            /\ boundary_calls[i].file_after = <<>>
            /\ (i < Len(boundary_calls)) => boundary_calls[i + 1].fetched
            /\ (i = Len(boundary_calls)) => (boundary_file = <<>>)

\* a call that fetched a non-empty collection without the district and
\* raised, followed by a call that fetched again
C18_Witness ==
    /\ Len(boundary_calls) = 2
    /\ FetchedWithoutDistrict(1)
    /\ boundary_calls[1].response[1].features # <<>>
    /\ boundary_calls[1].outcome = "ValueError"
    /\ boundary_calls[2].fetched

\* the boundary half of C19: a failed request of the collection leaves
\* _load_cb5_boundary as an exception, with nothing returned or written
C19_BoundaryFetchFailureRaises ==
    \A i \in 1..Len(boundary_calls) :
        (boundary_calls[i].fetched /\ ~boundary_calls[i].response[1].ok) =>
            /\ boundary_calls[i].outcome = "RequestException"
            /\ boundary_calls[i].value = <<>>
            /\ boundary_calls[i].file_after = <<>>

-----------------------------------------------------------------------------
(* The download script: scripts_fetch_data.py, fetch_dataset (lines 72-94) and
   main (lines 136-308) *)

\* the datasets main fetches, in the order of its calls of fetch_dataset
\* (lines 154, 190, 219, 248, 272)
FETCH_ORDER == <<"signal_studies", "srts", "aps_installed", "crashes", "311">>

\* what requests.get(base_url, ...) can answer: rows, with or without a
\* borough field, or a failure (an exception of requests.get, raise_for_status
\* or response.json)
FetchResponses ==
    {[ok |-> TRUE, rows |-> n, borough |-> b] : n \in 1..MaxFetchedRows, b \in BOOLEAN}
        \cup {[ok |-> TRUE, rows |-> 0, borough |-> FALSE],
              [ok |-> FALSE, rows |-> 0, borough |-> FALSE]}

\* the answers followed for a dataset: only the first section of main reads
\* the borough column without looking for it
ResponsesFor(name) ==
    IF name = "signal_studies" THEN FetchResponses
    ELSE {resp \in FetchResponses : resp.borough = (resp.rows > 0)}

\* fetch_dataset(endpoint, ...), lines 88-94: one requests.get inside a try;
\* any exception is printed and an empty DataFrame is returned.  df_rows is
\* the number of rows of the returned frame, requests the number of calls of
\* requests.get, raised whether an exception leaves the function.
fetch_dataset(endpoint, resp) ==
    IF resp.ok
    THEN [endpoint |-> endpoint, requests |-> 1, raised |-> FALSE, printed_error |-> FALSE,
          df_rows |-> resp.rows, borough |-> resp.borough]
    ELSE [endpoint |-> endpoint, requests |-> 1, raised |-> FALSE, printed_error |-> TRUE,
          df_rows |-> 0, borough |-> FALSE]

\* df_studies[df_studies['borough'] == 'Queens'] (line 165) raises KeyError on
\* a frame without that column, after the csv file is written
section_raises(name, r) == name = "signal_studies" /\ r.df_rows > 0 /\ ~r.borough

\* a csv file left in DATA_DIR by an earlier run
EarlierCsv == <<[run |-> "earlier", rows |-> 1]>>

\* df.to_csv(...) of this run
to_csv(r) == <<[run |-> "this", rows |-> r.df_rows]>>

Datasets == {FETCH_ORDER[k] : k \in 1..Len(FETCH_ORDER)}

InitFetch ==
    /\ pc = "fetch"
    /\ poly = 1
    /\ srts = <<>>
    /\ fd_done = <<>>
    /\ fd_csv = {}
    /\ fd_run = "running"
    /\ fd_files \in [Datasets -> {<<>>, EarlierCsv}]
    /\ IdleFilter
    /\ IdleClassify
    /\ IdleGeo
    /\ IdleProx
    /\ IdleBA
    /\ IdleMW
    /\ IdleBnd
    /\ IdleLate

\* a section of main that saves whatever fetch_dataset returned
FetchSectionAlwaysSaves ==
    /\ pc = "fetch"
    /\ fd_run = "running"
    /\ Len(fd_done) < Len(FETCH_ORDER)
    /\ \E resp \in ResponsesFor(FETCH_ORDER[Len(fd_done) + 1]) :
          LET name == FETCH_ORDER[Len(fd_done) + 1]
              r == fetch_dataset(name, resp)
          IN  /\ fd_done' = Append(fd_done, r)
              /\ fd_csv' = fd_csv \cup {name}
              /\ fd_files' = [fd_files EXCEPT ![name] = to_csv(r)]
              /\ fd_run' = IF r.raised \/ section_raises(name, r) THEN "raised" ELSE "running"
    /\ UNCHANGED <<pc, poly, srts, filterVars, classVars, geoVars, proxVars, baVars, mwVars, lateVars, bndVars>>

\* one section of main: df = fetch_dataset(...); if not df.empty: df.to_csv(...)
\* and the printed breakdowns (lines 154-179 and the four sections after
\* it); an exception leaving fetch_dataset or the section leaves main
FetchSection ==
    /\ pc = "fetch"
    /\ fd_run = "running"
    /\ Len(fd_done) < Len(FETCH_ORDER)
    /\ \E resp \in ResponsesFor(FETCH_ORDER[Len(fd_done) + 1]) :
          LET name == FETCH_ORDER[Len(fd_done) + 1]
              r == fetch_dataset(name, resp)
              saved == ~r.raised /\ r.df_rows > 0
          IN  /\ fd_done' = Append(fd_done, r)
              /\ fd_csv' = IF saved THEN fd_csv \cup {name} ELSE fd_csv
              /\ fd_files' = IF saved THEN [fd_files EXCEPT ![name] = to_csv(r)] ELSE fd_files
              /\ fd_run' = IF r.raised \/ section_raises(name, r) THEN "raised" ELSE "running"
    /\ UNCHANGED <<pc, poly, srts, filterVars, classVars, geoVars, proxVars, baVars, mwVars, lateVars, bndVars>>

\* the summary and 'return all_data' at the end of main
FetchMainReturns ==
    /\ pc = "fetch"
    /\ fd_run = "running"
    /\ Len(fd_done) = Len(FETCH_ORDER)
    /\ fd_run' = "returned"
    /\ UNCHANGED <<pc, poly, srts, filterVars, classVars, geoVars, proxVars, baVars, mwVars, lateVars, bndVars,
                   fd_done, fd_csv, fd_files>>

NextFetch == FetchSection \/ FetchMainReturns

SpecFetch == InitFetch /\ [][NextFetch]_vars

-----------------------------------------------------------------------------
(* Download claims *)

\* C19 as stated: a failed fetch of a raw dataset is an error that ends the
\* run: nothing is fetched after it and main does not return normally.
C19_FailedFetchAbortsRun ==
    \A k \in 1..Len(fd_done) :
        fd_done[k].printed_error =>
            /\ Len(fd_done) = k
            /\ fd_run # "returned"

\* what the code does: the failed fetch is tried once, answered with an empty
\* frame, no csv is written for it, and main goes on to the next dataset
C19_FailedFetchSkipsDataset ==
    \A k \in 1..Len(fd_done) :
        /\ fd_done[k].endpoint = FETCH_ORDER[k]
        /\ fd_done[k].requests = 1
        /\ fd_done[k].printed_error =>
              /\ ~fd_done[k].raised
              /\ fd_done[k].df_rows = 0
              /\ FETCH_ORDER[k] \notin fd_csv
              /\ fd_run # "raised"

\* main has returned although the first fetch failed
C19_ReturnedAfterFailure ==
    /\ fd_run = "returned"
    /\ fd_done[1].printed_error
    /\ fd_csv # {}

-----------------------------------------------------------------------------
(* The speed-bump location lookup *)

\* the rows of the speed-bump table that have a from-coordinate, in input order
SrtsWithCoords ==
    Filter(srts, [i \in 1..Len(srts) |-> notna(srts[i].fromlatitude) /\ notna(srts[i].fromlongitude)])

\* the keys a speed-bump record produces: the pair of its main street and
\* from-street and the pair of its main street and to-street, where the names
\* are there
SrtsKeysOf(row) ==
    LET main == _normalize_street_name(row.onstreet)
        from_st == _normalize_street_name(row.fromstreet)
        to_st == _normalize_street_name(row.tostreet)
    IN  (IF main # <<>> /\ from_st # <<>> THEN {sorted_pair(main, from_st)} ELSE {})
            \cup (IF main # <<>> /\ to_st # <<>> THEN {sorted_pair(main, to_st)} ELSE {})

\* the lookups have been built from the tables of this run
LookupsBuilt == geo # <<>>

\* C20: the lookup has exactly the (main street, from-street) and (main
\* street, to-street) keys of the speed-bump records, and under each key the
\* coordinate of the first record in input order that produced the key,
\* whatever the later records with the same key hold.
C20_FirstRecordWinsPerKey ==
    LookupsBuilt =>
        LET df == SrtsWithCoords
        IN  /\ DOMAIN srts_lookup = UNION {SrtsKeysOf(df[i]) : i \in 1..Len(df)}
            /\ \A key \in DOMAIN srts_lookup :
                  \E i \in 1..Len(df) :
                      /\ key \in SrtsKeysOf(df[i])
                      /\ \A j \in 1..(i - 1) : key \notin SrtsKeysOf(df[j])
                      /\ srts_lookup[key] = <<df[i].fromlatitude, df[i].fromlongitude>>

\* two records with a common key and different coordinates: the key holds the
\* coordinate of the first
C20_Witness ==
    /\ LookupsBuilt
    /\ Len(srts) = 2
    /\ \E key \in SrtsKeysOf(srts[1]) \cap SrtsKeysOf(srts[2]) :
          /\ srts[1].fromlatitude # srts[2].fromlatitude
          /\ srts[1].fromlongitude # srts[2].fromlongitude
          /\ srts_lookup[key] = <<srts[1].fromlatitude, srts[1].fromlongitude>>

-----------------------------------------------------------------------------
(* Tier 3 *)

\* the number of points the two lookups give a street: one per lookup entry
\* and per position of the street in the entry's key
PointCount(street) ==
    Cardinality({kp \in (DOMAIN crash_lookup) \X {1, 2} : kp[1][kp[2]] = street})
        + Cardinality({kp \in (DOMAIN srts_lookup) \X {1, 2} : kp[1][kp[2]] = street})

\* the longitudes of these points
PointLons(street) ==
    {crash_lookup[k].lon : k \in {j \in DOMAIN crash_lookup : j[1] = street \/ j[2] = street}}
        \cup {srts_lookup[k][2] : k \in {j \in DOMAIN srts_lookup : j[1] = street \/ j[2] = street}}

\* at least 2 points, and not all at one longitude
FittedStreet(street) == PointCount(street) >= 2 /\ Cardinality(PointLons(street)) >= 2

\* the lookups of this run are built and not yet dropped
LookupsInHand == pc \in {"tier1", "tier2", "tier3", "save"}

\* the conditions under which Tier 3 resolves a request
Tier3Applies(row) ==
    LET lines == _build_street_lines(crash_lookup, srts_lookup)
    IN  /\ isna(row.latitude)
        /\ FittedStreet(row.main_norm)
        /\ FittedStreet(row.cross_norm)
        /\ lines[row.main_norm][1] # lines[row.cross_norm][1]
        /\ Inside(_intersect_lines(lines[row.main_norm], lines[row.cross_norm]))

Tier3Resolved(row) ==
    LET lines == _build_street_lines(crash_lookup, srts_lookup)
        crossing == _intersect_lines(lines[row.main_norm], lines[row.cross_norm])
    IN  [row EXCEPT !.latitude = crossing[1], !.longitude = crossing[2],
                    !.geocode_tier = "street_line"]

Tier3StepAsClaimed ==
    (pc = "tier3") =>
        \A i \in 1..Len(geo) :
            geo'[i] = IF Tier3Applies(geo[i]) THEN Tier3Resolved(geo[i]) ELSE geo[i]

\* C21: a street has a fitted line exactly if the lookups give it at least 2
\* points whose longitudes are not all the same; Tier 3 resolves a request
\* exactly if it is unresolved after Tiers 1 and 2, both its streets have a
\* fitted line, the slopes differ and the crossing is inside the polygon, and
\* leaves every other request as it is.
C21_Tier3OnlyWhenLinesCrossInside ==
    /\ [](LookupsInHand =>
            DOMAIN _build_street_lines(crash_lookup, srts_lookup)
                = {s \in {k[p] : k \in (DOMAIN crash_lookup) \cup (DOMAIN srts_lookup), p \in {1, 2}} :
                      FittedStreet(s)})
    /\ [][Tier3StepAsClaimed]_vars

\* after Tier 3: a request it resolved, at the crossing of the lines of its two
\* streets, inside the polygon
C21_Witness ==
    /\ pc = "save"
    /\ \E i \in 1..Len(geo) :
          /\ geo[i].geocode_tier = "street_line"
          /\ FittedStreet(geo[i].main_norm)
          /\ FittedStreet(geo[i].cross_norm)
          /\ Inside(<<geo[i].latitude, geo[i].longitude>>)
          /\ ~Tier1Succeeds(geo[i])
          /\ ~Tier2Succeeds(geo[i])

\* after Tier 3: a request left unresolved although both its streets have a
\* line
C21_WitnessCrossingOutside ==
    /\ pc = "save"
    /\ \E j \in 1..Len(geo) :
          /\ isna(geo[j].latitude)
          /\ FittedStreet(geo[j].main_norm)
          /\ FittedStreet(geo[j].cross_norm)

\* after Tier 3: a request left unresolved because one of its streets has
\* points but no line
C21_WitnessNoLine ==
    /\ pc = "save"
    /\ \E k \in 1..Len(geo) :
          /\ isna(geo[k].latitude)
          /\ NamesGiven(geo[k])
          /\ PointCount(geo[k].main_norm) >= 1
          /\ ~FittedStreet(geo[k].main_norm)

-----------------------------------------------------------------------------
(* Street names: _normalize_street_name, generate_maps.py lines 181-198 *)

\* the words the names are made of: abbreviations of the table in upper,
\* mixed and lower case, a word of the table's right-hand side, other words
NameWords == {<<"S", "T">>, <<"A", "v", "e">>, <<"r", "d">>, <<"E", "X", "P", "W", "Y">>, <<"A", "V", "E", "N", "U", "E">>, <<"M", "A", "I", "N">>}

RECURSIVE join_words(_, _)
join_words(ws, sep) ==
    IF ws = <<>> THEN <<>>
    ELSE IF Len(ws) = 1 THEN ws[1]
    ELSE ws[1] \o sep \o join_words(Tail(ws), sep)

\* the names: a missing or empty name (<<>>), blank names, and up to
\* MaxWords words separated by one or two blanks, with or without a blank
\* before and after
Names ==
    {<<>>, <<" ">>, <<" ", " ">>}
        \cup {lead \o join_words(ws, sep) \o trail :
                ws \in SeqsUpTo(NameWords, MaxWords) \ {<<>>},
                sep \in {<<" ">>, <<" ", " ">>}, lead \in {<<>>, <<" ">>}, trail \in {<<>>, <<" ">>}}

InitNorm ==
    /\ pc = "normalize"
    /\ poly = 1
    /\ srts = <<>>
    /\ nm_name \in Names
    /\ nm_out = <<>>
    /\ IdleFilter
    /\ IdleClassify
    /\ IdleGeo
    /\ IdleProx
    /\ IdleBA
    /\ IdleMW
    /\ IdleNet
    /\ IdleMain
    /\ IdleChart

\* a call _normalize_street_name(nm_name)
NormalizeStreetName ==
    /\ pc = "normalize"
    /\ nm_out' = <<_normalize_street_name(nm_name)>>
    /\ pc' = "nm_returned"
    /\ UNCHANGED <<poly, srts, filterVars, classVars, geoVars, proxVars, baVars, mwVars, netVars, mainVars, chartVars, nm_name>>

NextNorm == NormalizeStreetName

SpecNorm == InitNorm /\ [][NextNorm]_vars

-----------------------------------------------------------------------------
(* Street name claims *)

\* the words of a text: the maximal runs of non-blank characters
RECURSIVE words_from(_, _)
words_from(s, word) ==
    IF s = <<>> THEN (IF word = <<>> THEN <<>> ELSE <<word>>)
    ELSE IF Head(s) = " "
    THEN (IF word = <<>> THEN <<>> ELSE <<word>>) \o words_from(Tail(s), <<>>)
    ELSE words_from(Tail(s), Append(word, Head(s)))

WordsOf(s) == words_from(s, <<>>)

\* the abbreviations of the table as words, and what the table makes of one
AbbreviationWords == {Tail(abbrevs[k][1]) : k \in 1..Len(abbrevs)}

FullWord(w) == Tail(abbrevs[CHOOSE k \in 1..Len(abbrevs) : Tail(abbrevs[k][1]) = w][2])

\* the upper-case words of the name, the last one expanded if it is an
\* abbreviation and not the only word
WordsAsClaimed(name) ==
    LET ws == WordsOf(upper(name))
        n == Len(ws)
    IN  [k \in 1..n |-> IF k = n /\ n >= 2 /\ ws[n] \in AbbreviationWords
                        THEN FullWord(ws[n]) ELSE ws[k]]

\* C22: the result is the upper-case, blank-collapsed name with an abbreviation
\* of the table expanded only where it is the last of several words: words
\* before the last and a name of one word are unchanged, at most one word is
\* expanded, and a missing or blank name gives the empty string.
C22_ExpandsOnlyLastWord ==
    (pc = "nm_returned") =>
        LET ws == WordsOf(upper(nm_name))
            out == WordsOf(nm_out[1])
        IN  /\ nm_out[1] = join_words(WordsAsClaimed(nm_name), <<" ">>)
            /\ Len(out) = Len(ws)
            /\ \A k \in 1..(Len(ws) - 1) : out[k] = ws[k]
            /\ (Len(ws) = 1) => (nm_out[1] = ws[1])
            /\ Cardinality({k \in 1..Len(ws) : out[k] # ws[k]}) <= 1
            /\ (ws = <<>>) => (nm_out[1] = <<>>)

\* a name whose first and last words are abbreviations, given in mixed case
\* with two blanks between the words and a blank at the end: only the last
\* word is expanded
C22_Witness ==
    /\ pc = "nm_returned"
    /\ nm_name = <<"S", "T", " ", " ", "M", "A", "I", "N", " ", " ", "A", "v", "e", " ">>
    /\ nm_out[1] = <<"S", "T", " ", "M", "A", "I", "N", " ", "A", "V", "E", "N", "U", "E">>

\* a name that is an abbreviation alone, and a blank name
C22_WitnessAlone ==
    /\ pc = "nm_returned"
    /\ nm_name = <<" ", "r", "d">>
    /\ nm_out[1] = <<"R", "D">>

C22_WitnessBlank ==
    /\ pc = "nm_returned"
    /\ nm_name = <<" ", " ">>
    /\ nm_out[1] = <<>>

-----------------------------------------------------------------------------
(* The cache path of geocode_signal_studies *)

\* the cached records whose point is outside the polygon of this run
InvalidCached ==
    {i \in 1..Len(cacheFile[1]) :
        HasCoords(cacheFile[1][i])
            /\ ~Inside(<<cacheFile[1][i].latitude, cacheFile[1][i].longitude>>)}

CachePathStepAsClaimed ==
    (pc = "geocode" /\ cacheFile # <<>>) =>
        LET content == read_csv(cacheFile[1])
        IN  /\ pc' = "returned"
            /\ crash_lookup' = crash_lookup
            /\ srts_lookup' = srts_lookup
            /\ geo' = geo
            /\ Len(signal_geo') = 1
            /\ Len(signal_geo'[1]) = Len(content)
            /\ (InvalidCached = {}) =>
                  /\ ~wrote'
                  /\ cacheFile' = cacheFile
                  /\ signal_geo'[1] = content
            /\ (InvalidCached # {}) =>
                  /\ wrote'
                  /\ cacheFile' = signal_geo'
            /\ \A i \in 1..Len(content) :
                  (i \notin InvalidCached) => (signal_geo'[1][i] = content[i])

\* C23: with the cache file present a run builds no lookup and runs no tier;
\* it returns the content of the cache, writes the file only if a cached point
\* was invalidated, and every record whose point is inside the polygon or that
\* has no coordinates comes back as it was read.
C23_CachePathRewritesOnlyOnInvalidation ==
    [][CachePathStepAsClaimed]_vars

\* a run served from the cache that wrote nothing and returned a record with
\* coordinates and a record without
C23_Witness ==
    /\ pc = "returned"
    /\ runs > 1
    /\ geo = <<>>
    /\ ~wrote
    /\ signal_geo = <<read_csv(cacheFile[1])>>
    /\ \E i, j \in 1..Len(signal_geo[1]) :
          /\ HasCoords(signal_geo[1][i])
          /\ ~HasCoords(signal_geo[1][j])

\* a run served from the cache that invalidated a point, kept another and
\* rewrote the file
C23_WitnessRewritten ==
    /\ pc = "returned"
    /\ runs > 1
    /\ geo = <<>>
    /\ wrote
    /\ cacheFile = signal_geo
    /\ \E i, j \in 1..Len(signal_geo[1]) :
          /\ HasCoords(signal_geo[1][i])
          /\ signal_geo[1][j].geocode_tier = ""

-----------------------------------------------------------------------------
(* Runs of geocode_signal_studies over a cache file left by an earlier run *)

\* what an earlier run can have left for a request: unresolved, or a point
\* with the tag of the tier that found it under the polygon of that run
CachedResults == {<<NaN, NaN, "">>, <<Num(1), Num(1), "crash">>, <<Num(1), Num(3), "srts">>}

CachedRow(req, res) ==
    [mainstreet |-> req.mainstreet,
     crossstreet1 |-> req.crossstreet1,
     main_norm |-> _normalize_street_name(req.mainstreet),
     cross_norm |-> _normalize_street_name(req.crossstreet1),
     latitude |-> res[1], longitude |-> res[2], geocode_tier |-> res[3]]

\* the cache files: one record per request of a request table, in its order
SavedCaches ==
    UNION {{[i \in 1..Len(t) |->
                CachedRow(t[i], IF i < Len(t) THEN res[i] ELSE <<NaN, NaN, "">>)] :
              res \in [1..(Len(t) - 1) -> CachedResults]} :
           t \in RequestTables}

\* the crash and speed-bump tables a later run can find: none of the
\* candidate rows, or all of them
LaterCrashTables == {<<CrashNoOffStreet>>, Append(CrashCands, CrashNoOffStreet)}

LaterSrtsTables ==
    {<<>>,
     <<GeoSrtsRow(<<"A", " ", "S", "T">>, <<"B", " ", "A", "V", "E">>, <<"C", " ", "R", "D">>, Num(1), Num(2)),
       GeoSrtsRow(<<"C", " ", "R", "D">>, <<"B", " ", "A", "V", "E">>, <<"A", " ", "S", "T">>, Num(2), Num(3))>>}

InitCacheRuns ==
    /\ pc = "geocode"
    /\ poly \in 1..Len(Polygons)
    /\ srts = <<>>
    /\ crashes = <<CrashNoOffStreet>>
    /\ cacheFile \in {<<c>> : c \in SavedCaches}
    /\ cb5_no_aps = [i \in 1..Len(cacheFile[1]) |->
                        RequestRow(cacheFile[1][i].mainstreet, cacheFile[1][i].crossstreet1)]
    /\ crash_lookup = <<>>
    /\ srts_lookup = <<>>
    /\ geo = <<>>
    /\ signal_geo = <<>>
    /\ wrote = FALSE
    /\ runs = 1
    /\ IdleFilter
    /\ IdleClassify
    /\ IdleProx
    /\ IdleRest

\* between two runs the boundary file, the crash table and the speed-bump
\* table may have been replaced; the cache file stays where the last run
\* left it
NextRunNewData ==
    /\ pc = "returned"
    /\ runs < MaxRuns
    /\ runs' = runs + 1
    /\ poly' \in 1..Len(Polygons)
    /\ crashes' \in LaterCrashTables
    /\ srts' \in LaterSrtsTables
    /\ pc' = "geocode"
    /\ signal_geo' = <<>>
    /\ wrote' = FALSE
    /\ crash_lookup' = <<>>
    /\ srts_lookup' = <<>>
    /\ geo' = <<>>
    /\ UNCHANGED <<maps_filter, charts_filter, maps_cb5_srts, charts_cb5_srts,
                   classVars, proxVars, restVars, cb5_no_aps, cacheFile>>

NextCacheRuns == GeocodeFromCache \/ NextRunNewData

SpecCacheRuns == InitCacheRuns /\ [][NextCacheRuns]_vars

-----------------------------------------------------------------------------
(* Claims about runs over the cache *)

GeocodedIn(rows) == {i \in 1..Len(rows) : HasCoords(rows[i])}

NullStaysNull ==
    (cacheFile # <<>>) =>
        /\ cacheFile' # <<>>
        /\ Len(cacheFile'[1]) = Len(cacheFile[1])
        /\ GeocodedIn(cacheFile'[1]) \subseteq GeocodedIn(cacheFile[1])
        /\ (signal_geo' # <<>>) =>
              /\ GeocodedIn(signal_geo'[1]) \subseteq GeocodedIn(cacheFile[1])
              /\ GeocodedIn(signal_geo'[1]) = GeocodedIn(cacheFile'[1])

\* a request that Tier 1 would resolve with the tables and polygon of this run
Tier1WouldResolve(row) ==
    LET keys == crash_keys_of(_build_crash_location_lookup(crashes))
        key == sorted_pair(row.main_norm, row.cross_norm)
    IN  /\ row.main_norm # <<>>
        /\ row.cross_norm # <<>>
        /\ key \in DOMAIN keys
        /\ Inside(keys[key])

\* C24: while the cache file exists, a request without coordinates in the cache
\* has none in what any later run returns or leaves in the file: the set of
\* geocoded requests never grows from one run to the next, whatever polygon
\* and tables the later runs find.
C24_CachedNullStaysNull ==
    [][NullStaysNull]_vars

\* a later run has returned a request without coordinates that the crash
\* table of this run would resolve inside the polygon of this run
C24_Witness ==
    /\ pc = "returned"
    /\ runs > 1
    /\ \E i \in 1..Len(signal_geo[1]) :
          /\ ~HasCoords(signal_geo[1][i])
          /\ ~HasCoords(cacheFile[1][i])
          /\ Tier1WouldResolve(signal_geo[1][i])

-----------------------------------------------------------------------------
(* generate_maps.main, lines 1937-1986: the order of its steps *)

\* the cache files an earlier run can have left for a request table
SavedCachesOf(requests) ==
    {c \in SavedCaches :
        /\ Len(c) = Len(requests)
        /\ \A i \in 1..Len(c) :
              RequestRow(c[i].mainstreet, c[i].crossstreet1) = requests[i]}

InitMain ==
    /\ pc = "main_load"
    /\ poly \in 1..Len(Polygons)
    /\ srts \in LaterSrtsTables
    /\ crashes \in LaterCrashTables
    /\ cb5_no_aps \in RequestTables \cup {<<>>}
    /\ cacheFile \in {<<>>} \cup {<<c>> : c \in SavedCachesOf(cb5_no_aps)}
    /\ crash_lookup = <<>>
    /\ srts_lookup = <<>>
    /\ geo = <<>>
    /\ signal_geo = <<>>
    /\ wrote = FALSE
    /\ runs = 1
    /\ main_cache_read = <<>>
    /\ IdleFilter
    /\ IdleClassify
    /\ IdleProx
    /\ IdleBA
    /\ IdleMW
    /\ IdleNet
    /\ IdleNorm
    /\ IdleChart

\* line 1943: data = load_and_prepare_data(); line 1947 calls
\* geocode_signal_studies(data)
MainLoad ==
    /\ pc = "main_load"
    /\ pc' = "geocode"
    /\ UNCHANGED <<poly, filterVars, classVars, geoVars, proxVars, restVars>>

\* lines 519-520 of a fresh run with an empty request table: the summary of
\* Tier 1 divides by len(cb5_no_aps) and raises ZeroDivisionError
Tier1RaisesOnNoRequests ==
    /\ pc = "tier1"
    /\ cb5_no_aps = <<>>
    /\ pc' = "main_raised"
    /\ UNCHANGED <<poly, filterVars, classVars, geoVars, proxVars, restVars>>

\* Tier 1 of a run that has requests
Tier1OfMain == cb5_no_aps # <<>> /\ Tier1

\* lines 1949-1964: geocode_signal_studies has returned; the proximity analysis
\* and the summary, then map_consolidated is called
MainProximity ==
    /\ pc = "returned"
    /\ pc' = "main_map"
    /\ UNCHANGED <<poly, filterVars, classVars, geoVars, proxVars, restVars>>

\* line 1968 -> line 1197 -> line 831: map_consolidated calls
\* _compute_before_after, which reads the geocode cache with pd.read_csv; a
\* missing file raises FileNotFoundError
MainMapReadsCache ==
    /\ pc = "main_map"
    /\ main_cache_read' = <<cacheFile # <<>>>>
    /\ pc' = IF cacheFile # <<>> THEN "main_charts" ELSE "main_raised"
    /\ UNCHANGED <<poly, filterVars, classVars, geoVars, proxVars, baVars, mwVars, netVars, normVars, chartVars>>

\* any step before the read can fail (an input file is missing, the boundary
\* cannot be fetched, a chart cannot be drawn): the exception leaves main
MainStepRaises ==
    /\ pc \in {"main_load", "geocode", "returned", "main_map"}
    /\ pc' = "main_raised"
    /\ UNCHANGED <<poly, filterVars, classVars, geoVars, proxVars, restVars>>

NextMain ==
    \/ MainLoad
    \/ GeocodeFromCache
    \/ BuildLookups
    \/ Tier1OfMain
    \/ Tier1RaisesOnNoRequests
    \/ Tier2
    \/ Tier3
    \/ SaveCache
    \/ MainProximity
    \/ MainMapReadsCache
    \/ MainStepRaises

SpecMain == InitMain /\ [][NextMain]_vars

-----------------------------------------------------------------------------
(* Claims about main *)

\* the map step is entered only from the return of the geocoding step
MapStepFollowsGeocoding == (pc' = "main_map" /\ pc # "main_map") => (pc = "returned")

\* C25: in main the geocoding step comes before the map step on every path,
\* geocoding returns only with the cache file present (found, or written
\* before the return), and whenever _compute_before_after reads the cache the
\* file is there.
C25_CacheExistsWhenBeforeAfterReads ==
    /\ [][MapStepFollowsGeocoding]_vars
    /\ [](pc \in {"returned", "main_map", "main_charts"} => cacheFile # <<>>)
    /\ [](main_cache_read # <<>> => main_cache_read = <<TRUE>>)

\* a run that found no cache file, ran the tiers, wrote the file, and whose
\* map step has read it
C25_Witness ==
    /\ pc = "main_charts"
    /\ main_cache_read = <<TRUE>>
    /\ geo # <<>>
    /\ wrote
    /\ cacheFile = <<geo>>

\* a run that found the cache file and whose map step has read it
C25_WitnessCached ==
    /\ pc = "main_charts"
    /\ main_cache_read = <<TRUE>>
    /\ geo = <<>>

\* a run without requests: geocoding raised before the cache was written and
\* the map step was never reached
C25_WitnessAborted ==
    /\ pc = "main_raised"
    /\ cb5_no_aps = <<>>
    /\ crash_lookup # <<>>
    /\ cacheFile = <<>>
    /\ main_cache_read = <<>>

-----------------------------------------------------------------------------
(* The records of the before-after table *)

\* the install date of a study row: aw_installdate, or signalinstalldate when
\* the former is missing
InstallCell(study) ==
    IF notna(study.aw_installdate) THEN study.aw_installdate ELSE study.signalinstalldate

\* a study row a record can come from
InstalledApprovedStudy(study) ==
    /\ notna(InstallCell(study))
    /\ _classify_outcome(study.statusdescription) = "approved"
    /\ study.requesttype # "Accessible Pedestrian Signal"

RecordFromStudy(rec, study) ==
    /\ study.referencenumber = rec.referencenumber
    /\ study.requesttype = rec.requesttype
    /\ InstalledApprovedStudy(study)
    /\ InstallCell(study)[2] = 1
    /\ rec.install_date = <<InstallCell(study)[1]>>

RecordFromCache(rec, cached) ==
    /\ cached.referencenumber = rec.referencenumber
    /\ notna(cached.latitude)
    /\ notna(cached.longitude)
    /\ rec.latitude = cached.latitude
    /\ rec.longitude = cached.longitude

\* C26: every record of the result comes from a study row that has an install
\* date (aw_installdate, else signalinstalldate), is classified approved and
\* is no Accessible Pedestrian Signal request, and from a cache row of the
\* same reference number with coordinates; no two records have the same
\* reference number.
C26_RecordsOnlyForInstalledApprovedGeocoded ==
    /\ \A k \in 1..Len(ba_results) :
          /\ \E i \in 1..Len(ba_studies) : RecordFromStudy(ba_results[k], ba_studies[i])
          /\ \E j \in 1..Len(ba_cache) : RecordFromCache(ba_results[k], ba_cache[j])
    /\ \A k, l \in 1..Len(ba_results) :
          (ba_results[k].referencenumber = ba_results[l].referencenumber) => (k = l)

\* two study rows of one reference number that both qualify: one record
C26_Witness ==
    /\ pc = "ba_returned"
    /\ Len(ba_studies) = 2
    /\ ba_studies[1] # ba_studies[2]
    /\ ba_studies[1].referencenumber = ba_studies[2].referencenumber
    /\ InstalledApprovedStudy(ba_studies[1])
    /\ InstalledApprovedStudy(ba_studies[2])
    /\ Len(ba_results) = 1
    /\ RecordFromStudy(ba_results[1], ba_studies[1])

\* a qualifying row and a row that does not qualify or has no coordinates in
\* the cache: one record
C26_WitnessExcluded ==
    /\ pc = "ba_returned"
    /\ Len(ba_studies) = 2
    /\ ba_studies[1].referencenumber # ba_studies[2].referencenumber
    /\ Len(ba_results) = 1

-----------------------------------------------------------------------------
(* Spatial de-duplication: _spatial_dedup and its call in map_consolidated *)

\* the most rows of a table of denied locations
MaxEntries == 3

\* FlatDistanceTable[lat + 1][slat + 1][|lon - slon| + 1] is, in millimetres,
\* the value of dist in _spatial_dedup for a row at (lat, lon) and a selected
\* row at (slat, slon) of the proximity grid:
\* sqrt(((lat - slat) * 111320)^2 + ((lon - slon) * 111320 * cos(radians(lat)))^2)
FlatDistanceTable ==
    <<
       << <<0, 37949, 75898>>, <<50056, 62815, 90918>>, <<100112, 107063, 125630>>, <<150168, 154889, 168259>>, <<200224, 203789, 214127>> >>,
       << <<50056, 62815, 90918>>, <<0, 37949, 75898>>, <<50056, 62815, 90918>>, <<100112, 107063, 125630>>, <<150168, 154889, 168259>> >>,
       << <<100112, 107063, 125630>>, <<50056, 62815, 90918>>, <<0, 37948, 75897>>, <<50056, 62815, 90918>>, <<100112, 107063, 125630>> >>,
       << <<150168, 154889, 168258>>, <<100112, 107063, 125629>>, <<50056, 62814, 90917>>, <<0, 37948, 75897>>, <<50056, 62814, 90917>> >>,
       << <<200224, 203789, 214126>>, <<150168, 154889, 168258>>, <<100112, 107063, 125629>>, <<50056, 62814, 90917>>, <<0, 37948, 75896>> >>
    >>

\* dist of the inner loop, in millimetres
flat_distance(lat, lon, slat, slon) ==
    FlatDistanceTable[lat[1] + 1][slat[1] + 1][Abs(lon[1] - slon[1]) + 1]

\* the inner loop with only the row selected last compared
too_close_last_selected(row, selected_coords, radius) ==
    /\ selected_coords # <<>>
    /\ flat_distance(row.latitude, row.longitude,
                     selected_coords[Len(selected_coords)][1],
                     selected_coords[Len(selected_coords)][2]) < radius * 1000

\* the inner loop: too_close after the pass over selected_coords
too_close(row, selected_coords, radius) ==
    \E k \in 1..Len(selected_coords) :
        flat_distance(row.latitude, row.longitude,
                      selected_coords[k][1], selected_coords[k][2]) < radius * 1000

\* the outer loop from row i on: selected_idx when it ends
RECURSIVE select_rows(_, _, _, _, _)
select_rows(sorted_df, i, selected_idx, selected_coords, radius) ==
    IF i > Len(sorted_df) THEN selected_idx
    ELSE IF too_close(sorted_df[i], selected_coords, radius)
         THEN select_rows(sorted_df, i + 1, selected_idx, selected_coords, radius)
         ELSE select_rows(sorted_df, i + 1, Append(selected_idx, i),
                          Append(selected_coords,
                                 <<sorted_df[i].latitude, sorted_df[i].longitude>>),
                          radius)

\* The row orders sort_values('crashes_150m', ascending=False) can give: the
\* default sort is not a stable one, so rows of equal count come in any order.
sort_values_orders(df) ==
    {order \in [1..Len(df) -> 1..Len(df)] :
        /\ \A i, j \in 1..Len(df) : i # j => order[i] # order[j]
        /\ \A i, j \in 1..Len(df) :
              i < j => ~RatLt(df[order[i]].crashes_150m, df[order[j]].crashes_150m)}

\* df.sort_values(...).reset_index(drop=True) for one of these orders
sort_values(df, order) == [i \in 1..Len(df) |-> df[order[i]]]

\* _spatial_dedup(df, radius_m), order being the row order the sort gave
_spatial_dedup(df, radius, order) ==
    IF Len(df) = 0 THEN df
    ELSE LET sorted_df == sort_values(df, order)
             selected_idx == select_rows(sorted_df, 1, <<>>, <<>>, radius)
         IN  [k \in 1..Len(selected_idx) |-> sorted_df[selected_idx[k]]]

\* drop_duplicates(subset=['location_name'], keep='first')
drop_duplicate_names(rows) ==
    Filter(rows, [i \in 1..Len(rows) |->
        \A j \in 1..(i - 1) : rows[j].location_name # rows[i].location_name])

\* the grid points of the denied locations: latitude and longitude index
DedupCoords == { <<0, 0>>, <<2, 0>>, <<3, 0>>, <<3, 1>> }

DedupEntries ==
    {[location_name |-> name, latitude |-> Num(c[1]), longitude |-> Num(c[2]),
      crashes_150m |-> Num(n)] :
        name \in {"A", "B"}, c \in DedupCoords, n \in {1, 2}}

DedupRadii == {100, 150}

InitDedup ==
    /\ pc = "dedup"
    /\ poly = 1
    /\ srts = <<>>
    /\ sd_df \in SeqsUpTo(DedupEntries, MaxEntries)
    /\ sd_radius \in DedupRadii
    /\ sd_arg = <<>>
    /\ sd_out = <<>>
    /\ IdleFilter
    /\ IdleClassify
    /\ IdleGeo
    /\ IdleProx
    /\ IdleBA
    /\ IdleMW
    /\ IdleNet
    /\ IdleNorm
    /\ IdleMain
    /\ IdleFunnel

\* a call _spatial_dedup(df, radius_m)
SpatialDedup ==
    /\ pc = "dedup"
    /\ \E order \in sort_values_orders(sd_df) :
          sd_out' = <<_spatial_dedup(sd_df, sd_radius, order)>>
    /\ sd_arg' = <<sd_df>>
    /\ pc' = "deduped"
    /\ UNCHANGED <<poly, filterVars, classVars, geoVars, proxVars, baVars, mwVars, netVars,
                   normVars, mainVars, funnelVars, sd_df, sd_radius>>

\* map_consolidated, lines 1269-1272: the table is sorted by descending crash
\* count, the first row of each location name is kept, and the rest is handed
\* to _spatial_dedup with radius_m=150
SpotlightDedup ==
    /\ pc = "dedup"
    /\ sd_radius = 150
    /\ \E first \in sort_values_orders(sd_df) :
          LET spotlight_data == drop_duplicate_names(sort_values(sd_df, first))
          IN  /\ sd_arg' = <<spotlight_data>>
              /\ \E order \in sort_values_orders(spotlight_data) :
                    sd_out' = <<_spatial_dedup(spotlight_data, 150, order)>>
    /\ pc' = "spotlight"
    /\ UNCHANGED <<poly, filterVars, classVars, geoVars, proxVars, baVars, mwVars, netVars,
                   normVars, mainVars, funnelVars, sd_df, sd_radius>>

NextDedup == SpatialDedup \/ SpotlightDedup

SpecDedup == InitDedup /\ [][NextDedup]_vars

\* one entry is within the radius of another: the test of the inner loop
WithinRadiusOf(a, b, radius) ==
    flat_distance(a.latitude, a.longitude, b.latitude, b.longitude) < radius * 1000

\* how often a row occurs in a table
Occurrences(tab, row) == Cardinality({i \in 1..Len(tab) : tab[i] = row})

\* the radius of the call made
RadiusOfCall == IF pc = "spotlight" THEN 150 ELSE sd_radius

\* C27: in the table _spatial_dedup returns no two entries are within
\* radius_m of each other; an entry with the highest crash count of the input
\* is kept; the result holds rows of the input only, and every row left out is
\* within radius_m of a kept row whose crash count is at least as high; the
\* result is in descending order of crash count
C27_DedupKeepsHighestOfEachCluster ==
    sd_out # <<>> =>
        LET df == sd_arg[1]
            out == sd_out[1]
        IN  /\ \A p, q \in 1..Len(out) :
                  p # q => ~WithinRadiusOf(out[p], out[q], RadiusOfCall)
            /\ df # <<>> =>
                  /\ out # <<>>
                  /\ \A i \in 1..Len(df) : ~RatLt(out[1].crashes_150m, df[i].crashes_150m)
            /\ \A k \in 1..Len(out) : Occurrences(out, out[k]) <= Occurrences(df, out[k])
            /\ \A i \in 1..Len(df) :
                  Occurrences(out, df[i]) < Occurrences(df, df[i]) =>
                      \E k \in 1..Len(out) :
                          /\ WithinRadiusOf(df[i], out[k], RadiusOfCall)
                          /\ ~RatLt(out[k].crashes_150m, df[i].crashes_150m)
            /\ \A p, q \in 1..Len(out) :
                  p < q => ~RatLt(out[p].crashes_150m, out[q].crashes_150m)

\* three entries in a chain: the middle one has the highest count and both its
\* neighbours, which are not within the radius of each other, are dropped
C27_Witness ==
    /\ sd_out # <<>>
    /\ Len(sd_arg[1]) = 3
    /\ Len(sd_out[1]) = 1
    /\ \E i, j \in 1..3 :
          /\ i # j
          /\ sd_arg[1][i] # sd_out[1][1]
          /\ sd_arg[1][j] # sd_out[1][1]
          /\ ~WithinRadiusOf(sd_arg[1][i], sd_arg[1][j], RadiusOfCall)
          /\ RatLt(sd_arg[1][i].crashes_150m, sd_out[1][1].crashes_150m)

\* the first entry of the chain has the highest count: the middle one is dropped
\* and the far end, within the radius of the dropped entry only, is kept
C27_WitnessChainEndKept ==
    /\ sd_out # <<>>
    /\ Len(sd_arg[1]) = 3
    /\ Len(sd_out[1]) = 2
    /\ \E i \in 1..3 :
          /\ Occurrences(sd_out[1], sd_arg[1][i]) = 0
          /\ WithinRadiusOf(sd_arg[1][i], sd_out[1][2], RadiusOfCall)
          /\ WithinRadiusOf(sd_arg[1][i], sd_out[1][1], RadiusOfCall)

\* in map_consolidated a second row of one location name is dropped first and
\* one of the two locations left is dropped as within 150 m of the other
C27_WitnessSpotlight ==
    /\ pc = "spotlight"
    /\ Len(sd_df) = 3
    /\ Len(sd_arg[1]) = 2
    /\ Len(sd_out[1]) = 1
    /\ sd_arg[1][1].latitude # sd_arg[1][2].latitude
-----------------------------------------------------------------------------
(* The approval funnel: chart_15_srts_funnel *)

\* the most rows _load_cb5_srts_full returns
MaxFunnelRows == 2

\* Series.str.contains(pat, case=False, na=False) for a pattern that is an
\* alternation of plain words: False for a missing cell
str_contains(cell, words) ==
    /\ notna(cell)
    /\ \E w \in words : contains_str(lower(cell), lower(w))

CancelRejectDenied == { <<"C", "a", "n", "c", "e", "l">>, <<"R", "e", "j", "e", "c", "t">>, <<"d", "e", "n", "i", "e", "d">> }

CancelRejectDeniedClosed == CancelRejectDenied \union { <<"C", "l", "o", "s", "e", "d">> }

\* install_dt of a row
install_dt(row) == to_datetime(row.installationdate)

\* still_open with the pattern of the other three masks
still_open_rows_ignoring_closed(feasible) ==
    Filter(feasible, [i \in 1..Len(feasible) |->
        /\ isna(install_dt(feasible[i]))
        /\ ~str_contains(feasible[i].projectstatus, CancelRejectDenied)])

\* lines 1726-1729
installed_rows(feasible) ==
    Filter(feasible, [i \in 1..Len(feasible) |->
        /\ notna(install_dt(feasible[i]))
        /\ ~str_contains(feasible[i].projectstatus, CancelRejectDenied)])

\* lines 1730-1732
cancelled_rows(feasible) ==
    Filter(feasible, [i \in 1..Len(feasible) |->
        str_contains(feasible[i].projectstatus, CancelRejectDenied)])

\* lines 1733-1736
still_open_rows(feasible) ==
    Filter(feasible, [i \in 1..Len(feasible) |->
        /\ isna(install_dt(feasible[i]))
        /\ ~str_contains(feasible[i].projectstatus, CancelRejectDeniedClosed)])

\* lines 1738-1742
closed_other_rows(feasible) ==
    Filter(feasible, [i \in 1..Len(feasible) |->
        /\ isna(install_dt(feasible[i]))
        /\ str_contains(feasible[i].projectstatus, { <<"C", "l", "o", "s", "e", "d">> })
        /\ ~str_contains(feasible[i].projectstatus, CancelRejectDenied)])

\* cb5[cb5['segmentstatusdescription'] == 'Feasible']
feasible_rows(cb5) ==
    Filter(cb5, [i \in 1..Len(cb5) |-> cb5[i].segmentstatusdescription = "Feasible"])

\* chart_15_srts_funnel up to the counts: int() of the minimum year raises
\* when no Feasible row has a request date, and the .str accessor raises on a
\* projectstatus column that is not of strings
chart_15_srts_funnel(cb5, dtype) ==
    LET feasible == feasible_rows(cb5)
        nothing == [raised |-> "", feasible |-> feasible, installed |-> <<>>,
                    cancelled |-> <<>>, still_open |-> <<>>, closed_other |-> <<>>,
                    n_total |-> 0, n_installed |-> 0, n_cancelled |-> 0,
                    n_waiting |-> 0, n_closed |-> 0]
    IN  IF \A i \in 1..Len(feasible) : isna(feasible[i].requestdate)
        THEN [nothing EXCEPT !.raised = "ValueError"]
        ELSE IF dtype # "object"
        THEN [nothing EXCEPT !.raised = "AttributeError"]
        ELSE LET installed_f == installed_rows(feasible)
                 cancelled_f == cancelled_rows(feasible)
                 still_open_f == still_open_rows(feasible)
                 closed_other_f == closed_other_rows(feasible)
             IN  [raised |-> "", feasible |-> feasible, installed |-> installed_f,
                  cancelled |-> cancelled_f, still_open |-> still_open_f,
                  closed_other |-> closed_other_f,
                  n_total |-> Len(feasible), n_installed |-> Len(installed_f),
                  n_cancelled |-> Len(cancelled_f), n_waiting |-> Len(still_open_f),
                  n_closed |-> Len(closed_other_f)]

\* the project status texts of the rows, and a missing one
ProjectStatuses == { NaN, <<"O", "p", "e", "n">>, <<"C", "l", "o", "s", "e", "d">>, <<"C", "A", "N", "C", "E", "L", "L", "E", "D">>, <<"R", "e", "j", "e", "c", "t", "e", "d", " ", "-", " ", "C", "l", "o", "s", "e", "d">> }

\* installationdate cells: missing, a date, a text that is no date
InstallationCells == { NaN, <<400, 1>>, <<0, 0>> }

\* segment status and request date (a day number, NaT where the loader's
\* to_datetime found no date)
FunnelRowKinds ==
    { <<"Feasible", <<300>>>>, <<"Feasible", NaT>>, <<"Not Feasible", <<300>>>> }

FunnelRows ==
    {[segmentstatusdescription |-> k[1], requestdate |-> k[2],
      installationdate |-> inst, projectstatus |-> st] :
        k \in FunnelRowKinds, inst \in InstallationCells, st \in ProjectStatuses}

\* read_csv gives a column with no text in it the dtype float64
ColumnDtypes(cb5) ==
    IF \A i \in 1..Len(cb5) : isna(cb5[i].projectstatus)
    THEN {"object", "float64"}
    ELSE {"object"}

InitFunnel ==
    /\ pc = "chart_15"
    /\ poly = 1
    /\ srts = <<>>
    /\ f15_cb5 \in SeqsUpTo(FunnelRows, MaxFunnelRows)
    /\ f15_dtype \in ColumnDtypes(f15_cb5)
    /\ f15_out = <<>>
    /\ IdleFilter
    /\ IdleClassify
    /\ IdleGeo
    /\ IdleProx
    /\ IdleBA
    /\ IdleMW
    /\ IdleNet
    /\ IdleNorm
    /\ IdleMain
    /\ IdleDedup

\* a call chart_15_srts_funnel()
Chart15SrtsFunnel ==
    /\ pc = "chart_15"
    /\ f15_out' = <<chart_15_srts_funnel(f15_cb5, f15_dtype)>>
    /\ pc' = IF f15_out'[1].raised = "" THEN "charted" ELSE "raised"
    /\ UNCHANGED <<poly, filterVars, classVars, geoVars, proxVars, baVars, mwVars, netVars,
                   normVars, mainVars, dedupVars, f15_cb5, f15_dtype>>

NextFunnel == Chart15SrtsFunnel

SpecFunnel == InitFunnel /\ [][NextFunnel]_vars

\* the number of the four category tables a row is in
CategoriesOf(out, row) ==
    Cardinality({c \in {"installed", "cancelled", "still_open", "closed_other"} :
                    Occurrences(out[c], row) > 0})

\* C28: when the chart gets to its counts, every Feasible row is in exactly one
\* of the four category tables, as often as it is in the Feasible table, and
\* the four counts add up to the number of Feasible rows
C28_FunnelCategoriesPartitionFeasible ==
    (f15_out # <<>> /\ f15_out[1].raised = "") =>
        LET out == f15_out[1]
        IN  /\ out.feasible = feasible_rows(f15_cb5)
            /\ \A i \in 1..Len(out.feasible) :
                  LET row == out.feasible[i]
                  IN  /\ CategoriesOf(out, row) = 1
                      /\ Occurrences(out.installed, row) + Occurrences(out.cancelled, row)
                           + Occurrences(out.still_open, row) + Occurrences(out.closed_other, row)
                           = Occurrences(out.feasible, row)
            /\ out.n_total = Len(out.feasible)
            /\ out.n_installed = Len(out.installed)
            /\ out.n_cancelled = Len(out.cancelled)
            /\ out.n_waiting = Len(out.still_open)
            /\ out.n_closed = Len(out.closed_other)
            /\ out.n_installed + out.n_cancelled + out.n_waiting + out.n_closed = out.n_total

\* a request closed without an install date next to one with a missing status
C28_Witness ==
    /\ f15_out # <<>>
    /\ f15_out[1].raised = ""
    /\ f15_out[1].n_total = 2
    /\ f15_out[1].n_closed = 1
    /\ f15_out[1].n_waiting = 1
    /\ isna(f15_out[1].still_open[1].projectstatus)

\* an installed request next to one with an install date and a rejected project
C28_WitnessInstalledAndCancelled ==
    /\ f15_out # <<>>
    /\ f15_out[1].raised = ""
    /\ f15_out[1].n_installed = 1
    /\ f15_out[1].n_cancelled = 1
    /\ notna(install_dt(f15_out[1].cancelled[1]))
    /\ str_contains(f15_out[1].cancelled[1].projectstatus, { <<"C", "l", "o", "s", "e", "d">> })

\* no Feasible request has a request date: the chart raises before the counts
C28_WitnessRaised ==
    /\ f15_out # <<>>
    /\ f15_out[1].raised = "ValueError"
    /\ feasible_rows(f15_cb5) # <<>>
-----------------------------------------------------------------------------
(* Download claims: the saved csv files *)

\* the fetch of the k-th dataset failed or gave a frame without rows
NothingFetched(k) == fd_done[k].printed_error \/ fd_done[k].df_rows = 0

\* a step of main in which the fetch failed or gave no rows leaves every csv
\* file as it was and does not end the run
EmptyFetchStepAsClaimed ==
    (Len(fd_done') = Len(fd_done) + 1
        /\ (fd_done'[Len(fd_done')].printed_error \/ fd_done'[Len(fd_done')].df_rows = 0))
        => /\ fd_files' = fd_files
           /\ fd_csv' = fd_csv
           /\ fd_run' = "running"

\* C29: a dataset's csv file is written in a run only when the fetch of that
\* dataset gave at least one row; after a fetch that failed or gave no rows the
\* file of that dataset is the one an earlier run left, or still absent, and
\* the run goes on: the datasets are fetched in the order of main, one
\* request each, and main returns only after all five
C29_CsvWrittenOnlyForFetchedRows ==
    /\ [](\A k \in 1..Len(fd_done) :
            LET name == FETCH_ORDER[k]
            IN  /\ fd_done[k].endpoint = name
                /\ fd_done[k].requests = 1
                /\ name \in fd_csv <=> fd_done[k].df_rows >= 1
                /\ name \in fd_csv => fd_files[name] = to_csv(fd_done[k])
                /\ NothingFetched(k) =>
                      /\ fd_files[name] \in {<<>>, EarlierCsv}
                      /\ fd_run # "raised"
                      /\ (k = Len(fd_done) /\ k < Len(FETCH_ORDER)) => ENABLED FetchSection)
    /\ [](\A name \in Datasets \ {FETCH_ORDER[k] : k \in 1..Len(fd_done)} :
              name \notin fd_csv /\ fd_files[name] \in {<<>>, EarlierCsv})
    /\ [](fd_run = "returned" => Len(fd_done) = Len(FETCH_ORDER))
    /\ [][EmptyFetchStepAsClaimed]_vars

\* the first fetch failed and the second gave no rows with a csv file of an
\* earlier run in place for both; the other three were fetched and saved
C29_Witness ==
    /\ fd_run = "returned"
    /\ fd_done[1].printed_error
    /\ ~fd_done[2].printed_error /\ fd_done[2].df_rows = 0
    /\ fd_files["signal_studies"] = EarlierCsv
    /\ fd_files["srts"] = EarlierCsv
    /\ \A k \in 3..5 : fd_files[FETCH_ORDER[k]] = to_csv(fd_done[k]) /\ fd_done[k].df_rows >= 1

\* a failed fetch of a dataset that had no csv file leaves none
C29_WitnessNoFile ==
    /\ fd_run = "returned"
    /\ fd_done[4].printed_error
    /\ fd_files["crashes"] = <<>>
    /\ fd_files["311"] # <<>>

\* the first section raises on a frame without a borough column, after saving it
C29_WitnessSectionRaised ==
    /\ fd_run = "raised"
    /\ Len(fd_done) = 1
    /\ fd_files["signal_studies"] = to_csv(fd_done[1])
-----------------------------------------------------------------------------
(* Rank-sum claims: the two U statistics of a pair of samples *)

\* some value occurs twice in the sample
TiedWithin(xs) == \E k, l \in 1..Len(xs) : k # l /\ xs[k] = xs[l]

\* some value occurs in both samples
TiedAcross(xs, ys) == \E k \in 1..Len(xs) : \E l \in 1..Len(ys) : xs[k] = ys[l]

\* C30: for two samples that are non-empty once the missing values are
\* dropped, with n1 and n2 values left, the U the call returns and the U of
\* the call with the samples exchanged add up to n1 * n2, and each of them is
\* at least 0 and at most n1 * n2, ties within and across the samples included
C30_USymmetry ==
    (pc = "mw_returned" /\ dropna(mw_x) # <<>> /\ dropna(mw_y) # <<>>) =>
        LET n1 == Len(dropna(mw_x))
            n2 == Len(dropna(mw_y))
            U_xy == mw_out[1].U
            U_yx == _mann_whitney_u(mw_y, mw_x).U
        IN  /\ notna(U_xy)
            /\ notna(U_yx)
            /\ RatAdd(U_xy, U_yx) = Num(n1 * n2)
            /\ ~RatLt(U_xy, Num(0))
            /\ ~RatLt(Num(n1 * n2), U_xy)
            /\ ~RatLt(U_yx, Num(0))
            /\ ~RatLt(Num(n1 * n2), U_yx)

\* a value tied within the first sample and across the two: U is 1 one way
\* round and 3 the other
C30_Witness ==
    /\ pc = "mw_returned"
    /\ Len(dropna(mw_x)) = 2
    /\ Len(dropna(mw_y)) = 2
    /\ TiedWithin(dropna(mw_x))
    /\ ~TiedWithin(dropna(mw_y))
    /\ TiedAcross(dropna(mw_x), dropna(mw_y))
    /\ mw_out[1].U = Num(1)
    /\ _mann_whitney_u(mw_y, mw_x).U = Num(3)

\* the reference samples, tied within both and across: U is 4 and 12
C30_WitnessReference ==
    /\ pc = "mw_returned"
    /\ mw_x = ReferenceX
    /\ mw_y = ReferenceY
    /\ mw_out[1].U = Num(4)
    /\ _mann_whitney_u(mw_y, mw_x).U = Num(12)
=============================================================================
